---- MODULE Spec2Model ----
(***************************************************************************)
(* A model of the utility layer of the Databricks MCP server:              *)
(*   config.py  - get_tool_filter, is_module_enabled, get_workspace_client *)
(*   utils.py   - serialize, paginate, format_error, to_json               *)
(*   tools/*.py - the failure boundary around every registered operation   *)
(*   server.py  - _register_tools, main                                    *)
(* Text is modelled as a sequence of one-character strings, so that        *)
(* split(","), strip() and set membership are computed as Python does.     *)
(***************************************************************************)
EXTENDS Integers, Sequences, FiniteSets, TLC

VARIABLES
    envInclude,   \* os.environ.get("DATABRICKS_MCP_TOOLS_INCLUDE")
    envExclude,   \* os.environ.get("DATABRICKS_MCP_TOOLS_EXCLUDE")
    fOp,          \* the last call of the filter layer: "none", "filter", "enabled"
    fName,        \* the module_name argument of the last is_module_enabled call
    fFilter,      \* the pair returned by the last get_tool_filter call
    fEnabled,     \* the boolean returned by the last is_module_enabled call
    fSeen,        \* the two environment values the last call read
    envChanges,   \* how many times the environment has been changed
    fChangesSeen, \* how many changes had been made when the last call ran
    sIn,          \* the argument of serialize
    sDone,        \* whether serialize has returned
    sOut,         \* the value serialize returned
    jDone,        \* whether to_json has been called on the same argument
    jOut,         \* what to_json did: the text it returned or the failure it raised
    eIn,          \* the argument of format_error
    eDone,        \* whether format_error has returned
    eOut,         \* the string format_error returned
    pItems,       \* the items the iterator holds
    pEndless,     \* whether the iterator starts over instead of stopping
    pFailAt,      \* the pull at which the iterator raises (0: never)
    pSrcExc,      \* the failure the iterator raises at that pull
    pMaxArg,      \* the max_items argument (None: not given)
    pPulled,      \* how many times paginate has called next() on the iterator
    pResults,     \* paginate's local list "results"
    pPc,          \* "loop", "returned", "raised" (paginate), "done" (the tool returned)
    pExc,         \* the failure paginate raised
    pRet,         \* the string the enclosing list operation returned
    clientCache,  \* whether lru_cache holds a WorkspaceClient
    clientMade,   \* how many times the WorkspaceClient constructor has completed
    tCacheBefore, \* whether lru_cache held a client when the last invocation began
    tArgs,        \* the arguments of the last invocation
    tTool,        \* the tool operation invoked last ("none": none yet)
    tLog,         \* the constructor and upstream calls it made, with their outcomes
    tRet,         \* the string it returned
    tEscaped,     \* the failure that left it uncaught (None: none)
    tPrevFailed,  \* whether a call failed in the invocation before it
    srvArgs,      \* sys.argv as argparse reads it: transport, host, port, or invalid
    srvOutcome,   \* what importing and registering each listed module does
    srvPc,        \* where main() is
    srvIdx,       \* the position of _register_tools in _TOOL_MODULES
    srvLog,       \* the calls main() and _register_tools() made, in order
    srvSettings,  \* mcp.settings: host and port
    srvExc,       \* what left main() uncaught (None: nothing)
    trItems,      \* the items argument of truncate_results
    trMaxArg,     \* its max_items argument (None: not given)
    trDone,       \* whether truncate_results has returned
    trOut         \* the dict it returned

filterVars == <<envInclude, envExclude, fOp, fName, fFilter, fEnabled, fSeen, envChanges, fChangesSeen>>

serVars == <<sIn, sDone, sOut, jDone, jOut>>

fmtVars == <<eIn, eDone, eOut>>

pagVars == <<pItems, pEndless, pFailAt, pSrcExc, pMaxArg, pPulled, pResults, pPc, pExc, pRet>>

toolVars == <<clientCache, clientMade, tCacheBefore, tArgs, tTool, tLog, tRet, tEscaped,
              tPrevFailed>>

srvVars == <<srvArgs, srvOutcome, srvPc, srvIdx, srvLog, srvSettings, srvExc>>

truncVars == <<trItems, trMaxArg, trDone, trOut>>

vars == <<filterVars, serVars, fmtVars, pagVars, toolVars, srvVars, truncVars>>

\* What each layer leaves alone.
exceptFilter == <<serVars, fmtVars, pagVars, toolVars, srvVars, truncVars>>

exceptSerialize == <<filterVars, fmtVars, pagVars, toolVars, srvVars, truncVars>>

exceptFormat == <<filterVars, serVars, pagVars, toolVars, srvVars, truncVars>>

exceptPaginate == <<filterVars, serVars, fmtVars, toolVars, srvVars, truncVars>>

exceptTools == <<filterVars, serVars, fmtVars, pagVars, srvVars, truncVars>>

exceptServer == <<serVars, fmtVars, pagVars, toolVars, truncVars>>

exceptTruncate == <<filterVars, serVars, fmtVars, pagVars, toolVars, srvVars>>

(***************************************************************************)
(* Python's None and optional values.                                      *)
(***************************************************************************)
None == [isNone |-> TRUE]

Some(v) == [isNone |-> FALSE, val |-> v]

IsNone(o) == o.isNone

(***************************************************************************)
(* Text.                                                                   *)
(***************************************************************************)
MaxEnvLen == 3

Chars == {"a", "b", " ", ","}

Whitespace == {" "}

RECURSIVE TextsUpTo(_)
TextsUpTo(n) ==
    IF n = 0 THEN {<<>>}
    ELSE LET shorter == TextsUpTo(n - 1)
         IN  shorter \cup {Append(t, c) : t \in {u \in shorter : Len(u) = n - 1}, c \in Chars}

EnvValues == {None} \cup {Some(t) : t \in TextsUpTo(MaxEnvLen)}

ModuleNames == {<<"a">>, <<"b">>, <<"c">>}

Range(s) == {s[i] : i \in 1..Len(s)}

\* str.split(sep) for a one-character separator: every separator cuts, and
\* empty pieces are kept ("a,," gives "a", "", "").
RECURSIVE split(_, _)
split(s, sep) ==
    IF \A i \in 1..Len(s) : s[i] # sep THEN <<s>>
    ELSE LET i == CHOOSE i \in 1..Len(s) : s[i] = sep /\ \A j \in 1..(i - 1) : s[j] # sep
         IN  <<SubSeq(s, 1, i - 1)>> \o split(SubSeq(s, i + 1, Len(s)), sep)

RECURSIVE lstrip(_)
lstrip(s) ==
    IF s # <<>> /\ s[1] \in Whitespace THEN lstrip(Tail(s)) ELSE s

RECURSIVE rstrip(_)
rstrip(s) ==
    IF s # <<>> /\ s[Len(s)] \in Whitespace THEN rstrip(SubSeq(s, 1, Len(s) - 1)) ELSE s

\* str.strip()
strip(s) == rstrip(lstrip(s))

\* Truthiness of a str: non-empty.
TruthyStr(s) == s # <<>>

(***************************************************************************)
(* config.py                                                               *)
(***************************************************************************)
\* {s.strip() for s in value.split(",") if s.strip()}
parse_names_keep_empty(value) == {strip(s) : s \in Range(split(value, ","))}

parse_names(value) ==
    {strip(s) : s \in {p \in Range(split(value, ",")) : TruthyStr(strip(p))}}

\* "<set comprehension> if value else None": None and "" are falsy.
source_set(value) ==
    IF ~IsNone(value) /\ TruthyStr(value.val) THEN Some(parse_names(value.val)) ELSE None

\* Truthiness of "set | None": neither None nor empty.
TruthySet(o) == ~IsNone(o) /\ o.val # {}

get_tool_filter(include, exclude) ==
    LET include_set == source_set(include)
        exclude_set == source_set(exclude)
    IN  IF TruthySet(include_set) /\ TruthySet(exclude_set)
        THEN <<include_set, None>>
        ELSE <<include_set, exclude_set>>

is_module_enabled_not_negated(include, exclude, module_name) ==
    LET f == get_tool_filter(include, exclude)
    IN  IF ~IsNone(f[1]) THEN module_name \in f[1].val
        ELSE IF ~IsNone(f[2]) THEN module_name \in f[2].val
        ELSE TRUE

is_module_enabled(include, exclude, module_name) ==
    LET f == get_tool_filter(include, exclude)
    IN  IF ~IsNone(f[1]) THEN module_name \in f[1].val
        ELSE IF ~IsNone(f[2]) THEN module_name \notin f[2].val
        ELSE TRUE

(***************************************************************************)
(* Values: what a tool hands to serialize.  A value is a record tagged by  *)
(* its Python type; the payload v depends on the tag.                      *)
(***************************************************************************)
NoneV == [t |-> "none"]

IntV(n) == [t |-> "int", n |-> n]

StrV(x) == [t |-> "str", s |-> x]

DictV(f) == [t |-> "dict", m |-> f]

ListV(q) == [t |-> "list", q |-> q]

TupleV(q) == [t |-> "tuple", q |-> q]

\* An instance of a @dataclass: its fields, by name.
DataclassV(f) == [t |-> "dataclass", m |-> f]

\* A member of an Enum: its .value.
EnumV(x) == [t |-> "enum", e |-> x]

\* An instance of a plain class: its __dict__.
ObjectV(f) == [t |-> "object", m |-> f]

\* An object without .value and without __dict__ (a complex number): its str().
OtherV(x) == [t |-> "other", s |-> x]

MaxListLen == 2

Prims == {NoneV, IntV(1), StrV("s")}

RECURSIVE SeqsUpTo(_, _)
SeqsUpTo(S, n) ==
    IF n = 0 THEN {<<>>}
    ELSE LET shorter == SeqsUpTo(S, n - 1)
         IN  shorter \cup {Append(q, x) : q \in {u \in shorter : Len(u) = n - 1}, x \in S}

\* The containers whose parts are drawn from S, the elements of lists from E.
Containers(S, E) ==
    {DataclassV(f) : f \in [{"city", "zip_code"} -> S]}
        \cup {DictV(f) : f \in [{"key"} -> S]}
        \cup {ListV(q) : q \in SeqsUpTo(E, MaxListLen)}
        \cup {TupleV(<<x>>) : x \in S}
        \cup {ObjectV(f) : f \in [{"x", "_internal"} -> S]}

Leaves == Prims \cup {EnumV(StrV("red")), OtherV("(42+3j)")}

Values1 == Leaves \cup Containers(Prims, Prims)

ListElems == Prims \cup {DataclassV(f) : f \in [{"city", "zip_code"} -> Prims]}

\* A member of an IntEnum: an int (isinstance(obj, int)) that is also an Enum.
IntEnumV(n) == [t |-> "intenum", n |-> n]

\* Dictionary keys are modelled by strings: a str key by itself, the int key 1
\* and the tuple key (1, 2) by the two tokens below.
IntKey == "int:1"

TupleKey == "tuple:(1, 2)"

\* class Planet(Enum): EARTH = (1, 2)
Planet == EnumV(TupleV(<<IntV(1), IntV(2)>>))

\* A plain object one of whose attributes is called "value".
Holder == ObjectV([value |-> DataclassV([city |-> StrV("s"), zip_code |-> NoneV]),
                   x |-> IntV(1)])

\* A dataclass one of whose fields is called "value".
Measurement == DataclassV([value |-> IntV(1), city |-> NoneV])

\* Inputs outside the regular families: value-exposing objects, enums with
\* non-scalar values, dictionaries with keys that are not str.
Specials ==
    {Planet, Holder, Measurement, IntEnumV(1),
     EnumV(IntV(1)), EnumV(OtherV("(42+3j)")),
     ListV(<<Planet, NoneV>>),
     DictV([key |-> Holder]),
     DictV([k \in {IntKey} |-> StrV("s")]),
     DictV([k \in {TupleKey} |-> StrV("s")]),
     DictV([k \in {"_internal", "key"} |-> IF k = "key" THEN NoneV ELSE Measurement]),
     ObjectV([x \in {"x", "y", "_internal"} |-> IF x = "y" THEN NoneV ELSE ListV(<<NoneV>>)])}

\* Dataclasses, dicts, lists and objects holding dataclasses, dicts, lists, ...
Values == Values1 \cup Containers(Values1, ListElems) \cup Specials

(***************************************************************************)
(* utils.py: serialize                                                     *)
(***************************************************************************)
\* dataclasses.asdict: dataclasses become dicts, recursively through lists,
\* tuples and dicts; anything else is copied.
RECURSIVE asdict_inner(_)
asdict_inner(obj) ==
    CASE obj.t = "dataclass" -> DictV([k \in DOMAIN obj.m |-> asdict_inner(obj.m[k])])
      [] obj.t = "list" -> ListV([i \in 1..Len(obj.q) |-> asdict_inner(obj.q[i])])
      [] obj.t = "tuple" -> TupleV([i \in 1..Len(obj.q) |-> asdict_inner(obj.q[i])])
      [] obj.t = "dict" -> DictV([k \in DOMAIN obj.m |-> asdict_inner(obj.m[k])])
      [] OTHER -> obj

asdict(obj) == asdict_inner(obj)

\* isinstance(obj, (str, int, float, bool))
IsPrimitive(obj) == obj.t \in {"str", "int", "float", "bool", "intenum"}

\* is_dataclass(obj) and not isinstance(obj, type)
IsDataclassInstance(obj) == obj.t = "dataclass"

\* obj.__dict__: the attributes of a plain object, the fields of a dataclass,
\* the private slots of an Enum member.
Attrs(obj) ==
    IF obj.t = "enum" THEN [k \in {"_value_", "_name_"} |->
                               IF k = "_value_" THEN obj.e ELSE StrV("MEMBER")]
    ELSE obj.m

\* hasattr(obj, "__dict__")
HasDict(obj) == obj.t \in {"object", "dataclass", "enum"}

\* hasattr(obj, "value")
HasValue(obj) ==
    \/ obj.t = "enum"
    \/ obj.t \in {"object", "dataclass"} /\ "value" \in DOMAIN obj.m

GetValue(obj) == IF obj.t = "enum" THEN obj.e ELSE obj.m["value"]

\* k.startswith("_"), for the attribute names of the model.
StartsWithUnderscore(k) == k \in {"_internal", "_value_", "_name_"}

\* str(obj)
str(obj) ==
    CASE obj.t = "other" -> obj.s
      [] obj.t = "object" -> "<Holder object>"
      [] obj.t = "dataclass" -> "Address(...)"
      [] obj.t = "enum" -> "Planet.EARTH"
      [] OTHER -> "?"

RECURSIVE serialize(_)
serialize_dropping_nulls(obj) ==
    IF obj.t = "dict"
    THEN DictV([k \in {a \in DOMAIN obj.m : obj.m[a] # NoneV} |-> serialize(obj.m[k])])
    ELSE IF obj.t \in {"list", "tuple"}
         THEN ListV(SelectSeq([i \in 1..Len(obj.q) |-> serialize(obj.q[i])],
                              LAMBDA x : x # NoneV))
    ELSE obj

serialize_attrs_before_value(obj) ==
    IF obj.t = "none" THEN NoneV
    ELSE IF IsPrimitive(obj) THEN obj
    ELSE IF obj.t = "dict" THEN DictV([k \in DOMAIN obj.m |-> serialize(obj.m[k])])
    ELSE IF obj.t \in {"list", "tuple"}
         THEN ListV([i \in 1..Len(obj.q) |-> serialize(obj.q[i])])
    ELSE IF HasDict(obj)
         THEN LET d == Attrs(obj)
              IN  DictV([k \in {a \in DOMAIN d : ~StartsWithUnderscore(a) /\ d[a] # NoneV}
                            |-> serialize(d[k])])
    ELSE IF HasValue(obj) THEN GetValue(obj)
    ELSE StrV(str(obj))

serialize_keeping_private(obj) ==
    IF obj.t = "none" THEN NoneV
    ELSE IF IsPrimitive(obj) THEN obj
    ELSE IF obj.t = "dict" THEN DictV([k \in DOMAIN obj.m |-> serialize(obj.m[k])])
    ELSE IF obj.t \in {"list", "tuple"}
         THEN ListV([i \in 1..Len(obj.q) |-> serialize(obj.q[i])])
    ELSE IF IsDataclassInstance(obj)
         THEN LET d == asdict(obj).m
              IN  DictV([k \in {f \in DOMAIN d : d[f] # NoneV} |-> serialize(d[k])])
    ELSE IF HasValue(obj) THEN GetValue(obj)
    ELSE IF HasDict(obj)
         THEN LET d == Attrs(obj)
              IN  DictV([k \in {a \in DOMAIN d : d[a] # NoneV} |-> serialize(d[k])])
    ELSE StrV(str(obj))

serialize(obj) ==
    IF obj.t = "none" THEN NoneV
    ELSE IF IsPrimitive(obj) THEN obj
    ELSE IF obj.t = "dict" THEN DictV([k \in DOMAIN obj.m |-> serialize(obj.m[k])])
    ELSE IF obj.t \in {"list", "tuple"}
         THEN ListV([i \in 1..Len(obj.q) |-> serialize(obj.q[i])])
    ELSE IF IsDataclassInstance(obj)
         THEN LET d == asdict(obj).m
              IN  DictV([k \in {f \in DOMAIN d : d[f] # NoneV} |-> serialize(d[k])])
    ELSE IF HasValue(obj) THEN GetValue(obj)
    ELSE IF HasDict(obj)
         THEN LET d == Attrs(obj)
              IN  DictV([k \in {a \in DOMAIN d : ~StartsWithUnderscore(a) /\ d[a] # NoneV}
                            |-> serialize(d[k])])
    ELSE StrV(str(obj))

(***************************************************************************)
(* utils.py: format_error, to_json                                         *)
(***************************************************************************)
\* A failure: its type name, whether it has an error_code attribute, the
\* code and str(e).
Failure(kind, hasCode, code, msg) ==
    [kind |-> kind, hasCode |-> hasCode, code |-> code, msg |-> msg]

Failures ==
    {Failure("ConnectionError", FALSE, "", "timeout"),
     Failure("NotFound", TRUE, "CATALOG_NOT_FOUND", "missing"),
     Failure("Exception", FALSE, "", "")}

\* The two shapes of a tool's string result: plain text, and the JSON text
\* of a value tree.
Text(x) == [t |-> "text", s |-> x]

JsonText(tree) == [t |-> "json", j |-> tree]

format_error_truthy_code(e) ==
    IF e.hasCode /\ e.code \notin {"", "None"}
    THEN e.kind \o ": [" \o e.code \o "] " \o e.msg
    ELSE e.kind \o ": " \o e.msg

format_error(e) ==
    IF e.hasCode
    THEN e.kind \o ": [" \o e.code \o "] " \o e.msg
    ELSE e.kind \o ": " \o e.msg

\* What a call leaves behind when it raises instead of returning.
Raised(exc) == [t |-> "raise", exc |-> exc]

\* JSON documents, as json.loads reads the text back.
JNull == [t |-> "jnull"]

JNum(n) == [t |-> "jnum", n |-> n]

JStr(x) == [t |-> "jstr", s |-> x]

JArr(q) == [t |-> "jarr", q |-> q]

JObj(f) == [t |-> "jobj", m |-> f]

\* The JSON encoder on a dictionary key: str keys are written as they are,
\* int keys by their decimal digits, a tuple key is refused.
KeyEncodable(k) == k # TupleKey

json_key(k) == IF k = IntKey THEN "1" ELSE k

\* Whether json.dumps(tree, default=str) gets through: default is applied to
\* values only, never to keys.
RECURSIVE Encodable(_)
Encodable(v) ==
    CASE v.t \in {"list", "tuple"} -> \A i \in 1..Len(v.q) : Encodable(v.q[i])
      [] v.t = "dict" -> \A k \in DOMAIN v.m : KeyEncodable(k) /\ Encodable(v.m[k])
      [] OTHER -> TRUE

\* The document json.dumps(tree, default=str) writes.
RECURSIVE encode(_)
encode(v) ==
    CASE v.t = "none" -> JNull
      [] v.t \in {"int", "intenum"} -> JNum(v.n)
      [] v.t = "str" -> JStr(v.s)
      [] v.t \in {"list", "tuple"} -> JArr([i \in 1..Len(v.q) |-> encode(v.q[i])])
      [] v.t = "dict" ->
            JObj([j \in {json_key(k) : k \in DOMAIN v.m} |->
                     encode(v.m[CHOOSE k \in DOMAIN v.m : json_key(k) = j])])
      [] OTHER -> JStr(str(v))

dumps(tree) ==
    IF Encodable(tree)
    THEN JsonText(encode(tree))
    ELSE Raised(Failure("TypeError", FALSE, "",
                        "keys must be str, int, float, bool or None, not tuple"))

\* json.loads
RECURSIVE loads(_)
loads(doc) ==
    CASE doc.t = "jnull" -> NoneV
      [] doc.t = "jnum" -> IntV(doc.n)
      [] doc.t = "jstr" -> StrV(doc.s)
      [] doc.t = "jarr" -> ListV([i \in 1..Len(doc.q) |-> loads(doc.q[i])])
      [] doc.t = "jobj" -> DictV([k \in DOMAIN doc.m |-> loads(doc.m[k])])

\* json.dumps(serialize(obj), indent=2, default=str)
to_json(obj) == dumps(serialize(obj))

(***************************************************************************)
(* format_error applied to every failure of the model.                     *)
(***************************************************************************)
FailureKinds == {"ValueError", "RuntimeError", "Exception", "NotFound"}

\* The error_code attribute as the f-string renders it: a str as it is,
\* None as "None".
FailureCodes == {"E1", "RESOURCE_DOES_NOT_EXIST", "None", ""}

FailureMessages == {"", "x", "oops", "resource not found", "[E1] x", "timeout"}

FormatInputs ==
    {Failure(k, FALSE, "", m) : k \in FailureKinds, m \in FailureMessages}
        \cup {Failure(k, TRUE, c, m) :
                 k \in FailureKinds, c \in FailureCodes, m \in FailureMessages}

InitFormat ==
    /\ eIn \in FormatInputs
    /\ eDone = FALSE
    /\ eOut = ""

FmtIdle ==
    /\ eIn = Failure("Exception", FALSE, "", "")
    /\ eDone = FALSE
    /\ eOut = ""

CallFormatError ==
    /\ ~eDone
    /\ eDone' = TRUE
    /\ eOut' = format_error(eIn)
    /\ UNCHANGED <<eIn, exceptFormat>>

NextFormat == CallFormatError

(***************************************************************************)
(* utils.py: paginate, one loop iteration per step                         *)
(***************************************************************************)
DefaultMaxItems == 100

MaxSrcLen == 3

MaxCap == 4

PagItems == {IntV(1), DataclassV([city |-> StrV("NYC"), zip_code |-> NoneV])}

\* max_items: int = 100
max_items == IF IsNone(pMaxArg) THEN DefaultMaxItems ELSE pMaxArg.val

\* What the n-th next() on the iterator does.
NextRaises(n) == pFailAt = n

NextStops(n) == ~NextRaises(n) /\ ~pEndless /\ n > Len(pItems)

NextItem(n) == pItems[((n - 1) % Len(pItems)) + 1]

\* "if i >= max_items: break", i being enumerate's index of the item pulled.
BreakCond_gt(i, cap) == i > cap

BreakCond(i, cap) == i >= cap

\* results.append(serialize(item))
append_raw(results, item) == Append(results, item)

append_serialized(results, item) == Append(results, serialize(item))

InitPaginate ==
    /\ pItems \in SeqsUpTo(PagItems, MaxSrcLen)
    /\ pEndless \in {e \in BOOLEAN : e => pItems # <<>>}
    /\ pFailAt \in 0..(MaxSrcLen + 1)
    /\ pSrcExc \in {x \in Failures \cup {None} : (x = None) <=> (pFailAt = 0)}
    /\ pMaxArg \in {None} \cup {Some(n) : n \in 0..MaxCap}
    /\ pPulled = 0
    /\ pResults = <<>>
    /\ pPc = "loop"
    /\ pExc = None
    /\ pRet = None

PagIdle ==
    /\ pItems = <<>>
    /\ pEndless = FALSE
    /\ pFailAt = 0
    /\ pSrcExc = None
    /\ pMaxArg = None
    /\ pPulled = 0
    /\ pResults = <<>>
    /\ pPc = "idle"
    /\ pExc = None
    /\ pRet = None

PagInput == <<pItems, pEndless, pFailAt, pSrcExc, pMaxArg>>

\* next() yields an item and the cap is not reached: the item is collected.
PaginateCollect ==
    /\ pPc = "loop"
    /\ ~NextRaises(pPulled + 1) /\ ~NextStops(pPulled + 1)
    /\ ~BreakCond(pPulled, max_items)
    /\ pPulled' = pPulled + 1
    /\ pResults' = append_serialized(pResults, NextItem(pPulled + 1))
    /\ UNCHANGED <<PagInput, pPc, pExc, pRet, exceptPaginate>>

\* next() yields an item and the cap is reached: break, return results.
PaginateBreak ==
    /\ pPc = "loop"
    /\ ~NextRaises(pPulled + 1) /\ ~NextStops(pPulled + 1)
    /\ BreakCond(pPulled, max_items)
    /\ pPulled' = pPulled + 1
    /\ pPc' = "returned"
    /\ UNCHANGED <<PagInput, pResults, pExc, pRet, exceptPaginate>>

\* next() raises StopIteration: the loop ends, return results.
PaginateExhausted ==
    /\ pPc = "loop"
    /\ NextStops(pPulled + 1)
    /\ pPulled' = pPulled + 1
    /\ pPc' = "returned"
    /\ UNCHANGED <<PagInput, pResults, pExc, pRet, exceptPaginate>>

PaginateRaise_swallowed ==
    /\ pPc = "loop"
    /\ NextRaises(pPulled + 1)
    /\ pPulled' = pPulled + 1
    /\ pPc' = "returned"
    /\ UNCHANGED <<PagInput, pResults, pExc, pRet, exceptPaginate>>

\* next() raises: paginate has no handler, the failure leaves it.
PaginateRaise ==
    /\ pPc = "loop"
    /\ NextRaises(pPulled + 1)
    /\ pPulled' = pPulled + 1
    /\ pPc' = "raised"
    /\ pExc' = pSrcExc
    /\ UNCHANGED <<PagInput, pResults, pRet, exceptPaginate>>

\* The enclosing list operation: "return to_json(results)".
ListToolReturn ==
    /\ pPc = "returned"
    /\ pPc' = "done"
    /\ pRet' = LET r == to_json(ListV(pResults))
               IN  IF r.t = "raise" THEN Text(format_error(r.exc)) ELSE r
    /\ UNCHANGED <<PagInput, pPulled, pResults, pExc, exceptPaginate>>

\* The enclosing list operation: "except Exception as e: return format_error(e)".
ListToolExcept ==
    /\ pPc = "raised"
    /\ pPc' = "done"
    /\ pRet' = Text(format_error(pExc))
    /\ UNCHANGED <<PagInput, pPulled, pResults, pExc, exceptPaginate>>

NextPaginate ==
    \/ PaginateCollect
    \/ PaginateBreak
    \/ PaginateExhausted
    \/ PaginateRaise
    \/ ListToolReturn
    \/ ListToolExcept

(***************************************************************************)
(* utils.py: truncate_results                                              *)
(***************************************************************************)
DefaultTruncateMax == 50

MaxItemsLen == 3

MaxTruncateArg == 4

\* list(range(60)), the list of test_default_max_items_is_50.
LongList == [i \in 1..60 |-> i - 1]

TruncateItems == SeqsUpTo({1, 2}, MaxItemsLen) \cup {LongList}

\* items[:n] as Python slices: a negative n counts from the end.
SliceTo(items, n) ==
    IF n >= 0
    THEN SubSeq(items, 1, IF n < Len(items) THEN n ELSE Len(items))
    ELSE SubSeq(items, 1, IF Len(items) + n > 0 THEN Len(items) + n ELSE 0)

truncate_results_counting_returned(items, max_arg) ==
    LET cap == IF IsNone(max_arg) THEN DefaultTruncateMax ELSE max_arg.val
    IN  [items |-> SliceTo(items, cap),
         count |-> Len(SliceTo(items, cap)),
         truncated |-> Len(items) > cap]

truncate_results(items, max_arg) ==
    LET cap == IF IsNone(max_arg) THEN DefaultTruncateMax ELSE max_arg.val
        truncated == Len(items) > cap
    IN  [items |-> SliceTo(items, cap),
         count |-> Len(items),
         truncated |-> truncated]

InitTruncate ==
    /\ trItems \in TruncateItems
    /\ trMaxArg \in {None} \cup {Some(n) : n \in -1..MaxTruncateArg}
    /\ trDone = FALSE
    /\ trOut = [items |-> <<>>, count |-> 0, truncated |-> FALSE]

TruncIdle ==
    /\ trItems = <<>>
    /\ trMaxArg = None
    /\ trDone = FALSE
    /\ trOut = [items |-> <<>>, count |-> 0, truncated |-> FALSE]

CallTruncateResults ==
    /\ ~trDone
    /\ trDone' = TRUE
    /\ trOut' = truncate_results(trItems, trMaxArg)
    /\ UNCHANGED <<trItems, trMaxArg, exceptTruncate>>

NextTruncate == CallTruncateResults

(***************************************************************************)
(* The filter layer as a state machine: the environment is whatever the    *)
(* process was started with, and each call reads it afresh.                *)
(***************************************************************************)
InitFilter ==
    /\ envInclude \in EnvValues
    /\ envExclude \in EnvValues
    /\ fOp = "none"
    /\ fName = <<>>
    /\ fFilter = <<None, None>>
    /\ fEnabled = TRUE
    /\ fSeen = <<None, None>>
    /\ envChanges = 0
    /\ fChangesSeen = 0

FilterIdle ==
    /\ envInclude = None
    /\ envExclude = None
    /\ fOp = "none"
    /\ fName = <<>>
    /\ fFilter = <<None, None>>
    /\ fEnabled = TRUE
    /\ fSeen = <<None, None>>
    /\ envChanges = 0
    /\ fChangesSeen = 0

\* A get_tool_filter that kept the pair it computed first.
CallGetToolFilter_snapshot ==
    /\ fOp' = "filter"
    /\ fName' = <<>>
    /\ fFilter' = IF fOp = "none" THEN get_tool_filter(envInclude, envExclude) ELSE fFilter
    /\ fEnabled' = TRUE
    /\ fSeen' = <<envInclude, envExclude>>
    /\ fChangesSeen' = envChanges
    /\ UNCHANGED <<envInclude, envExclude, envChanges, exceptFilter>>

CallGetToolFilter ==
    /\ fOp' = "filter"
    /\ fName' = <<>>
    /\ fFilter' = get_tool_filter(envInclude, envExclude)
    /\ fEnabled' = TRUE
    /\ fSeen' = <<envInclude, envExclude>>
    /\ fChangesSeen' = envChanges
    /\ UNCHANGED <<envInclude, envExclude, envChanges, exceptFilter>>

CallIsModuleEnabled ==
    \E n \in ModuleNames :
        /\ fOp' = "enabled"
        /\ fName' = n
        /\ fFilter' = get_tool_filter(envInclude, envExclude)
        /\ fEnabled' = is_module_enabled(envInclude, envExclude, n)
        /\ fSeen' = <<envInclude, envExclude>>
        /\ fChangesSeen' = envChanges
        /\ UNCHANGED <<envInclude, envExclude, envChanges, exceptFilter>>

NextFilter == CallGetToolFilter \/ CallIsModuleEnabled

(***************************************************************************)
(* The same layer in a process whose environment changes between calls     *)
(* (os.environ assignments, monkeypatch.setenv / delenv in the tests).     *)
(***************************************************************************)
MaxEnvChanges == 2

EnvChoices == {None, Some(<<"a">>), Some(<<"b">>), Some(<<"a", ",", "b">>)}

InitFilterEnv ==
    /\ envInclude \in EnvChoices
    /\ envExclude \in EnvChoices
    /\ fOp = "none"
    /\ fName = <<>>
    /\ fFilter = <<None, None>>
    /\ fEnabled = TRUE
    /\ fSeen = <<None, None>>
    /\ envChanges = 0
    /\ fChangesSeen = 0

FilterResults == <<fOp, fName, fFilter, fEnabled, fSeen, fChangesSeen>>

SetEnvInclude ==
    \E v \in EnvChoices :
        /\ envChanges < MaxEnvChanges
        /\ v # envInclude
        /\ envInclude' = v
        /\ envChanges' = envChanges + 1
        /\ UNCHANGED <<envExclude, FilterResults, exceptFilter>>

SetEnvExclude ==
    \E v \in EnvChoices :
        /\ envChanges < MaxEnvChanges
        /\ v # envExclude
        /\ envExclude' = v
        /\ envChanges' = envChanges + 1
        /\ UNCHANGED <<envInclude, FilterResults, exceptFilter>>

NextFilterEnv ==
    \/ CallGetToolFilter
    \/ CallIsModuleEnabled
    \/ SetEnvInclude
    \/ SetEnvExclude


(***************************************************************************)
(* serialize applied to every value of the model.                          *)
(***************************************************************************)
InitSerialize ==
    /\ sIn \in Values
    /\ sDone = FALSE
    /\ sOut = NoneV
    /\ jDone = FALSE
    /\ jOut = NoneV

SerIdle ==
    /\ sIn = NoneV
    /\ sDone = FALSE
    /\ sOut = NoneV
    /\ jDone = FALSE
    /\ jOut = NoneV

CallSerialize ==
    /\ ~sDone
    /\ sDone' = TRUE
    /\ sOut' = serialize(sIn)
    /\ UNCHANGED <<sIn, jDone, jOut, exceptSerialize>>

CallToJson ==
    /\ ~jDone
    /\ jDone' = TRUE
    /\ jOut' = to_json(sIn)
    /\ UNCHANGED <<sIn, sDone, sOut, exceptSerialize>>

NextSerialize == CallSerialize \/ CallToJson

(***************************************************************************)
(* tools/*.py: the registered operations.  Every operation is one          *)
(* try/except around its whole body; an invocation is one step, which      *)
(* logs the constructor and upstream calls it makes.  What an upstream     *)
(* call does (return or raise) is the environment's choice.                *)
(***************************************************************************)
OkOut(x) == [ok |-> TRUE, val |-> x]

FailOut(f) == [ok |-> FALSE, exc |-> f]

Outcomes(vals, fails) == {OkOut(x) : x \in vals} \cup {FailOut(f) : f \in fails}

Entry(call, out) == [call |-> call, out |-> out]

\* A call with the keyword arguments it was given.
Sent(call, arg, out) == [call |-> call, arg |-> arg, out |-> out]

Timeout == Failure("ConnectionError", FALSE, "", "timeout")

ToolFailures == {Timeout, Failure("NotFound", TRUE, "CATALOG_NOT_FOUND", "missing")}

CatalogFailures ==
    ToolFailures
        \cup {Failure("ResourceAlreadyExists", TRUE, "RESOURCE_ALREADY_EXISTS",
                      "Catalog 'main' already exists"),
              Failure("BadRequest", TRUE, "BAD_REQUEST", "CATALOG ALREADY EXISTS")}

\* "already exists" in str(e).lower(), for the messages of the model.
ContainsAlreadyExists(msg) ==
    msg \in {"Catalog 'main' already exists", "CATALOG ALREADY EXISTS"}

\* The outcome of the try body: it returned a string, or a failure left it.
Return(ret, log) == [raised |-> FALSE, ret |-> ret, log |-> log]

Raise(exc, log) == [raised |-> TRUE, exc |-> exc, log |-> log]

\* "return to_json(obj)": a failure of the encoder leaves the try body too.
ReturnJson(obj, log) ==
    LET r == to_json(obj)
    IN  IF r.t = "raise" THEN Raise(r.exc, log) ELSE Return(r, log)

\* config.py: get_workspace_client under @lru_cache(maxsize=1).  The
\* constructor runs only while nothing is cached; a raise is not cached.
client_log_always_constructs(cache, co) == <<Entry("WorkspaceClient", co)>>

client_log(cache, co) == IF cache THEN <<>> ELSE <<Entry("WorkspaceClient", co)>>

client_ok(cache, co) == cache \/ co.ok

\* {**f, **g}
Merge(f, g) == [k \in DOMAIN f \cup DOMAIN g |-> IF k \in DOMAIN g THEN g[k] ELSE f[k]]

ClusterDetails == DataclassV([cluster_id |-> StrV("c1"), cluster_name |-> NoneV])

\* compute.py: try: w = get_workspace_client(); result = w.clusters.get(id);
\* return to_json(result)
databricks_get_cluster(cache, sc) ==
    IF ~client_ok(cache, sc.client)
    THEN Raise(sc.client.exc, client_log(cache, sc.client))
    ELSE LET log == client_log(cache, sc.client) \o <<Entry("clusters.get", sc.get)>>
         IN  IF ~sc.get.ok THEN Raise(sc.get.exc, log)
             ELSE ReturnJson(ClusterDetails, log)

\* compute.py: try: w = get_workspace_client();
\* results = paginate(w.clusters.list()); return to_json(results)
databricks_list_clusters(cache, sc) ==
    IF ~client_ok(cache, sc.client)
    THEN Raise(sc.client.exc, client_log(cache, sc.client))
    ELSE LET log1 == client_log(cache, sc.client) \o <<Entry("clusters.list", sc.list)>>
             log2 == log1 \o <<Entry("paginate", sc.iter)>>
         IN  IF ~sc.list.ok THEN Raise(sc.list.exc, log1)
             ELSE IF ~sc.iter.ok THEN Raise(sc.iter.exc, log2)
             ELSE ReturnJson(ListV(<<serialize(ClusterDetails)>>), log2)

Unavailable == DictV([status |-> StrV("unavailable")])

\* workflows.py: the six probes of databricks_workspace_status, each in its
\* own try/except.  The listings of the model's workspace are empty.
probe_auth(o) ==
    IF o.ok THEN DictV([status |-> StrV("ok"), user |-> StrV(o.val)])
    ELSE DictV([status |-> StrV("error"), error |-> StrV(o.exc.msg)])

probe_clusters(o) ==
    IF o.ok THEN DictV([total |-> IntV(0), running |-> IntV(0), terminated |-> IntV(0)])
    ELSE Unavailable

probe_warehouses(o) ==
    IF o.ok THEN DictV([total |-> IntV(0), running |-> IntV(0)]) ELSE Unavailable

probe_total(o) == IF o.ok THEN DictV([total |-> IntV(0)]) ELSE Unavailable

probe_endpoints(o) ==
    IF o.ok THEN DictV([total |-> IntV(0), ready |-> IntV(0)]) ELSE Unavailable

databricks_workspace_status(cache, sc) ==
    IF ~client_ok(cache, sc.client)
    THEN Raise(sc.client.exc, client_log(cache, sc.client))
    ELSE LET log == client_log(cache, sc.client)
                        \o <<Entry("current_user.me", sc.auth),
                             Entry("clusters.list", sc.clusters),
                             Entry("warehouses.list", sc.warehouses),
                             Entry("jobs.list", sc.jobs),
                             Entry("serving_endpoints.list", sc.endpoints),
                             Entry("catalogs.list", sc.catalogs)>>
             status == [auth |-> probe_auth(sc.auth),
                        clusters |-> probe_clusters(sc.clusters),
                        sql_warehouses |-> probe_warehouses(sc.warehouses),
                        jobs |-> probe_total(sc.jobs),
                        serving_endpoints |-> probe_endpoints(sc.endpoints),
                        catalogs |-> probe_total(sc.catalogs)]
         IN  ReturnJson(DictV(status), log)

CatalogStep(status) ==
    DictV([action |-> StrV("create_catalog"), status |-> StrV(status), name |-> StrV("main")])

SchemaStep ==
    DictV([action |-> StrV("create_schema"), status |-> StrV("created"),
           full_name |-> StrV("main.s")])

SchemaInfo ==
    DictV([catalog |-> StrV("main"), schema |-> StrV("s"), full_name |-> StrV("main.s")])

databricks_setup_schema_any_failure_fatal(cache, sc, create_catalog) ==
    IF ~client_ok(cache, sc.client)
    THEN Raise(sc.client.exc, client_log(cache, sc.client))
    ELSE LET log0 == client_log(cache, sc.client)
             log1 == IF create_catalog
                     THEN log0 \o <<Entry("catalogs.create", sc.catalog)>>
                     ELSE log0
             steps1 == IF create_catalog THEN <<CatalogStep("created")>> ELSE <<>>
             log2 == log1 \o <<Entry("schemas.create", sc.schema)>>
         IN  IF create_catalog /\ ~sc.catalog.ok THEN Raise(sc.catalog.exc, log1)
             ELSE IF ~sc.schema.ok THEN Raise(sc.schema.exc, log2)
             ELSE ReturnJson(DictV([steps |-> ListV(steps1 \o <<SchemaStep>>),
                                        schema |-> SchemaInfo]), log2)

\* workflows.py: databricks_setup_schema(catalog_name, schema_name, comment,
\* create_catalog)
databricks_setup_schema(cache, sc, create_catalog) ==
    IF ~client_ok(cache, sc.client)
    THEN Raise(sc.client.exc, client_log(cache, sc.client))
    ELSE LET log0 == client_log(cache, sc.client)
             log1 == IF create_catalog
                     THEN log0 \o <<Entry("catalogs.create", sc.catalog)>>
                     ELSE log0
             steps1 == IF ~create_catalog THEN <<>>
                       ELSE IF sc.catalog.ok THEN <<CatalogStep("created")>>
                       ELSE <<CatalogStep("already_exists")>>
             log2 == log1 \o <<Entry("schemas.create", sc.schema)>>
         IN  IF create_catalog /\ ~sc.catalog.ok /\ ~ContainsAlreadyExists(sc.catalog.exc.msg)
             THEN Raise(sc.catalog.exc, log1)
             ELSE IF ~sc.schema.ok THEN Raise(sc.schema.exc, log2)
             ELSE ReturnJson(DictV([steps |-> ListV(steps1 \o <<SchemaStep>>),
                                        schema |-> SchemaInfo]), log2)

\* workflows.py: databricks_table_preview(table_name, warehouse_id, limit);
\* has_wh: warehouse_id was given.
databricks_table_preview(cache, sc, has_wh) ==
    IF ~client_ok(cache, sc.client)
    THEN Raise(sc.client.exc, client_log(cache, sc.client))
    ELSE LET log1 == client_log(cache, sc.client) \o <<Entry("tables.get", sc.table)>>
             result1 ==
                 Merge([table_name |-> StrV("main.s.t")],
                       IF ~sc.table.ok
                       THEN [metadata |-> StrV("Could not retrieve table metadata")]
                       ELSE IF sc.table.val = "columns"
                       THEN [columns |-> ListV(<<DictV([name |-> StrV("id"),
                                                       type |-> StrV("INT")])>>),
                             column_count |-> IntV(1)]
                       ELSE <<>>)
             log2 == IF has_wh THEN log1
                     ELSE log1 \o <<Entry("warehouses.list", sc.whlist)>>
             log3 == log2 \o <<Entry("execute_statement", sc.exec)>>
         IN  IF ~has_wh /\ ~sc.whlist.ok THEN Raise(sc.whlist.exc, log2)
             ELSE IF ~has_wh /\ sc.whlist.val # "running"
             THEN ReturnJson(DictV(Merge(result1,
                      [sample_data |-> StrV("No running SQL warehouse found. Provide a warehouse_id or start one.")])),
                         log2)
             ELSE IF ~sc.exec.ok THEN Raise(sc.exec.exc, log3)
             ELSE IF sc.exec.val = "rows"
             THEN ReturnJson(DictV(Merge(result1,
                      [sample_data |-> DictV([columns |-> ListV(<<StrV("id")>>),
                                              rows |-> ListV(<<ListV(<<StrV("1")>>)>>),
                                              row_count |-> IntV(1)])])),
                         log3)
             ELSE ReturnJson(DictV(Merge(result1,
                      [sample_data |-> StrV("No data returned")])), log3)

\* The "state" attribute of a listed warehouse: a member of the SDK's
\* enumeration sql.State (what the SDK's warehouses.list() yields), or a plain
\* string of the same name (what the mocks of src/tests hold).
StateMember(name) == [enum |-> TRUE, name |-> name]

StateString(name) == [enum |-> FALSE, name |-> name]

\* str(state): a string is itself, a member of a plain Enum prints as
\* "State.<NAME>".
state_str(st) == IF st.enum THEN "State." \o st.name ELSE st.name

\* s.upper(), for the strings of the model.
upper(s) ==
    CASE s = "State.RUNNING" -> "STATE.RUNNING"
      [] s = "State.STOPPED" -> "STATE.STOPPED"
      [] OTHER -> s

MaxWarehouses == 2

WarehouseStates ==
    {StateString("RUNNING"), StateString("STOPPED"), StateString("STOPPING"),
     StateString("STARTING"), StateMember("RUNNING"), StateMember("STOPPED")}

\* The listings warehouses.list() yields: warehouse i has id "wh-i".
WarehouseIds == <<"wh-1", "wh-2", "wh-3">>

Warehouses ==
    UNION {{[i \in 1..n |-> [id |-> WarehouseIds[i], name |-> WarehouseIds[i],
                              state |-> f[i]]] :
                f \in [1..n -> WarehouseStates]} : n \in 0..MaxWarehouses}

\* The first position of whs whose upper-cased state string is in names
\* (0: there is none): "for wh in warehouses: if state ...: return".
FirstInState(whs, names) ==
    LET hits == {i \in 1..Len(whs) : upper(state_str(whs[i].state)) \in names}
    IN  IF hits = {} THEN 0 ELSE CHOOSE i \in hits : \A j \in hits : i <= j

RunningWarehouse(wh) ==
    DictV([warehouse_id |-> StrV(wh.id), name |-> StrV(wh.name), state |-> StrV("RUNNING"),
           message |-> StrV("Warehouse '" \o wh.name
                            \o "' is already running and ready for queries.")])

StartingWarehouse(wh) ==
    DictV([warehouse_id |-> StrV(wh.id), name |-> StrV(wh.name), state |-> StrV("STARTING"),
           message |-> StrV("Starting warehouse '" \o wh.name
                            \o "'. Check status with databricks_get_warehouse.")])

AllStates(whs) ==
    DictV([warehouses |->
               ListV([i \in 1..Len(whs) |->
                          DictV([id |-> StrV(whs[i].id), name |-> StrV(whs[i].name),
                                 state |-> StrV(state_str(whs[i].state))])]),
           message |->
               StrV("No startable warehouses found. All are in transitional states.")])

NoWarehouses ==
    DictV([error |-> StrV("No SQL warehouses found in workspace. Create one first.")])

\* workflows.py: databricks_find_and_start_warehouse()
databricks_find_and_start_warehouse(cache, sc) ==
    IF ~client_ok(cache, sc.client)
    THEN Raise(sc.client.exc, client_log(cache, sc.client))
    ELSE LET log1 == client_log(cache, sc.client) \o <<Entry("warehouses.list", sc.list)>>
         IN  IF ~sc.list.ok THEN Raise(sc.list.exc, log1)
             ELSE LET warehouses == sc.list.val
                      running == FirstInState(warehouses, {"RUNNING"})
                      stopped == FirstInState(warehouses, {"STOPPED", "STOPPING"})
                  IN  IF warehouses = <<>> THEN ReturnJson(NoWarehouses, log1)
                      ELSE IF running # 0
                      THEN ReturnJson(RunningWarehouse(warehouses[running]), log1)
                      ELSE IF stopped # 0
                      THEN LET log2 == log1 \o <<Sent("warehouses.start",
                                                       [id |-> warehouses[stopped].id],
                                                       sc.start)>>
                           IN  IF ~sc.start.ok THEN Raise(sc.start.exc, log2)
                               ELSE ReturnJson(StartingWarehouse(warehouses[stopped]), log2)
                      ELSE ReturnJson(AllStates(warehouses), log1)

\* ValueError(msg), raised or built locally.
ValueError(msg) == Failure("ValueError", FALSE, "", msg)

\* jobs.py: task_kwargs of databricks_create_job.
task_kwargs(args) ==
    Merge(Merge([task_key |-> args.task_key],
                IF args.cluster_id # "" THEN [existing_cluster_id |-> args.cluster_id]
                ELSE <<>>),
          IF args.notebook_path # ""
          THEN [notebook_task |-> [notebook_path |-> args.notebook_path]]
          ELSE [spark_python_task |-> [python_file |-> args.python_file]])

JobCreated(args, job_id) ==
    DictV([job_id |-> IntV(job_id), name |-> StrV(args.name), task_key |-> StrV(args.task_key),
           message |-> StrV("Job '" \o args.name \o "' created successfully with ID "
                            \o ToString(job_id) \o ".")])

databricks_create_job_unvalidated(cache, sc, args) ==
    IF ~client_ok(cache, sc.client)
    THEN Raise(sc.client.exc, client_log(cache, sc.client))
    ELSE LET log == client_log(cache, sc.client)
                        \o <<Sent("jobs.create",
                                   [name |-> args.name, tasks |-> <<task_kwargs(args)>>],
                                   sc.create)>>
         IN  IF ~sc.create.ok THEN Raise(sc.create.exc, log)
             ELSE ReturnJson(JobCreated(args, sc.create.val), log)

\* jobs.py: databricks_create_job(name, task_key, notebook_path, python_file,
\* cluster_id)
databricks_create_job(cache, sc, args) ==
    IF ~client_ok(cache, sc.client)
    THEN Raise(sc.client.exc, client_log(cache, sc.client))
    ELSE LET log0 == client_log(cache, sc.client)
             log == log0 \o <<Sent("jobs.create",
                                    [name |-> args.name, tasks |-> <<task_kwargs(args)>>],
                                    sc.create)>>
         IN  IF args.notebook_path # "" /\ args.python_file # ""
             THEN Return(Text(format_error(ValueError(
                             "Provide either notebook_path or python_file, not both."))),
                         log0)
             ELSE IF args.notebook_path = "" /\ args.python_file = ""
             THEN Return(Text(format_error(ValueError(
                             "Provide either notebook_path or python_file."))),
                         log0)
             ELSE IF ~sc.create.ok THEN Raise(sc.create.exc, log)
             ELSE ReturnJson(JobCreated(args, sc.create.val), log)

DefaultNumWorkers == 0

MaxWorkers == 2

\* compute.py: kwargs of databricks_create_cluster; num_workers is None when
\* the caller leaves it out.
cluster_kwargs_either_bound(args) ==
    Merge([cluster_name |-> args.cluster_name, spark_version |-> args.spark_version,
           node_type_id |-> args.node_type_id],
          IF args.autoscale_min > 0 \/ args.autoscale_max > 0
          THEN [autoscale |-> [min_workers |-> args.autoscale_min,
                               max_workers |-> args.autoscale_max]]
          ELSE [num_workers |-> IF IsNone(args.num_workers) THEN DefaultNumWorkers
                                ELSE args.num_workers.val])

cluster_kwargs(args) ==
    Merge([cluster_name |-> args.cluster_name, spark_version |-> args.spark_version,
           node_type_id |-> args.node_type_id],
          IF args.autoscale_min > 0 /\ args.autoscale_max > 0
          THEN [autoscale |-> [min_workers |-> args.autoscale_min,
                               max_workers |-> args.autoscale_max]]
          ELSE [num_workers |-> IF IsNone(args.num_workers) THEN DefaultNumWorkers
                                ELSE args.num_workers.val])

\* compute.py: databricks_create_cluster(cluster_name, spark_version,
\* node_type_id, num_workers, autoscale_min, autoscale_max)
databricks_create_cluster(cache, sc, args) ==
    IF ~client_ok(cache, sc.client)
    THEN Raise(sc.client.exc, client_log(cache, sc.client))
    ELSE LET log == client_log(cache, sc.client)
                        \o <<Sent("clusters.create", cluster_kwargs(args), sc.create)>>
         IN  IF ~sc.create.ok THEN Raise(sc.create.exc, log)
             ELSE ReturnJson(ClusterDetails, log)

DefaultMaxResults == 25

QueryHistoryCap == 25

MaxOverCap == 2

\* The builtin min, of two integers.
min(a, b) == IF b < a THEN b ELSE a

query_history_kwargs_uncapped(args) ==
    Merge(IF args.warehouse_id # ""
          THEN [filter_by |-> [warehouse_ids |-> <<args.warehouse_id>>]]
          ELSE <<>>,
          [max_results |-> IF IsNone(args.max_results) THEN DefaultMaxResults
                           ELSE args.max_results.val])

\* sql.py: kwargs of databricks_list_query_history; max_results is None when
\* the caller leaves it out.
query_history_kwargs(args) ==
    Merge(IF args.warehouse_id # ""
          THEN [filter_by |-> [warehouse_ids |-> <<args.warehouse_id>>]]
          ELSE <<>>,
          [max_results |-> min(IF IsNone(args.max_results) THEN DefaultMaxResults
                               ELSE args.max_results.val,
                               QueryHistoryCap)])

QueryHistory == DataclassV([next_page_token |-> NoneV, res |-> ListV(<<>>)])

\* sql.py: databricks_list_query_history(warehouse_id, max_results)
databricks_list_query_history(cache, sc, args) ==
    IF ~client_ok(cache, sc.client)
    THEN Raise(sc.client.exc, client_log(cache, sc.client))
    ELSE LET log == client_log(cache, sc.client)
                        \o <<Sent("query_history.list", query_history_kwargs(args), sc.list)>>
         IN  IF ~sc.list.ok THEN Raise(sc.list.exc, log)
             ELSE ReturnJson(QueryHistory, log)

\* The member names of the SDK's enumeration vectorsearch.EndpointType.
EndpointTypeNames == {"STANDARD"}

\* EndpointType[endpoint_type] of a name the enumeration does not have.
KeyError(key) == Failure("KeyError", FALSE, "", "'" \o key \o "'")

InvalidEndpointType(endpoint_type) ==
    ValueError("Invalid endpoint_type '" \o endpoint_type \o "'. Supported values: STANDARD")

EndpointProvisioning(args) ==
    DictV([status |-> StrV("provisioning"), name |-> StrV(args.name),
           endpoint_type |-> StrV(args.endpoint_type),
           message |-> StrV("Vector search endpoint '" \o args.name
                            \o "' creation initiated. "
                            \o "Use databricks_get_vector_search_endpoint to check status.")])

\* vector_search.py: the try body of databricks_create_vector_search_endpoint.
\* The arguments of create_endpoint are evaluated before the call is made.
create_vector_search_endpoint_body(cache, sc, args) ==
    IF ~client_ok(cache, sc.client)
    THEN Raise(sc.client.exc, client_log(cache, sc.client))
    ELSE LET log0 == client_log(cache, sc.client)
             log == log0 \o <<Sent("create_endpoint",
                                    [name |-> args.name, endpoint_type |-> args.endpoint_type],
                                    sc.create)>>
         IN  IF args.endpoint_type \notin EndpointTypeNames
             THEN Raise(KeyError(args.endpoint_type), log0)
             ELSE IF ~sc.create.ok THEN Raise(sc.create.exc, log)
             ELSE ReturnJson(EndpointProvisioning(args), log)

\* vector_search.py: databricks_create_vector_search_endpoint(name,
\* endpoint_type): the body under its first handler, "except KeyError:
\* return format_error(ValueError(...))".
databricks_create_vector_search_endpoint(cache, sc, args) ==
    LET body == create_vector_search_endpoint_body(cache, sc, args)
    IN  IF body.raised /\ body.exc.kind = "KeyError"
        THEN Return(Text(format_error(InvalidEndpointType(args.endpoint_type))), body.log)
        ELSE body

boundary_message_only(body) ==
    IF body.raised
    THEN [ret |-> Text(body.exc.msg), escaped |-> None]
    ELSE [ret |-> body.ret, escaped |-> None]

\* "try: <body> except Exception as e: return format_error(e)"
boundary(body) ==
    IF body.raised
    THEN [ret |-> Text(format_error(body.exc)), escaped |-> None]
    ELSE [ret |-> body.ret, escaped |-> None]

HasFailure(log) == \E i \in 1..Len(log) : ~log[i].out.ok

InitTools ==
    /\ clientCache = FALSE
    /\ clientMade = 0
    /\ tCacheBefore = FALSE
    /\ tArgs = None
    /\ tTool = "none"
    /\ tLog = <<>>
    /\ tRet = None
    /\ tEscaped = None
    /\ tPrevFailed = FALSE

ToolsIdle ==
    /\ clientCache = FALSE
    /\ clientMade = 0
    /\ tCacheBefore = FALSE
    /\ tArgs = None
    /\ tTool = "none"
    /\ tLog = <<>>
    /\ tRet = None
    /\ tEscaped = None
    /\ tPrevFailed = FALSE

\* The constructor completed in the invocation whose calls are log.
Constructed(log) ==
    log # <<>> /\ log[1].call = "WorkspaceClient" /\ log[1].out.ok

\* The invocation of operation tool with arguments args, whose try body did
\* what body says.
Invocation(tool, args, body) ==
    /\ tTool' = tool
    /\ tArgs' = args
    /\ tCacheBefore' = clientCache
    /\ clientMade' = (IF Constructed(body.log) THEN clientMade + 1 ELSE clientMade)
    /\ tLog' = body.log
    /\ tRet' = boundary(body).ret
    /\ tEscaped' = boundary(body).escaped
    /\ clientCache' = (clientCache \/ Constructed(body.log))
    /\ tPrevFailed' = HasFailure(tLog)
    /\ UNCHANGED exceptTools

ClientOutcomes == Outcomes({"client"}, ToolFailures)

InvokeGetCluster ==
    \E sc \in [client : ClientOutcomes, get : Outcomes({"cluster"}, ToolFailures)] :
        Invocation("databricks_get_cluster", None, databricks_get_cluster(clientCache, sc))

InvokeListClusters ==
    \E sc \in [client : ClientOutcomes,
               list : Outcomes({"iterator"}, ToolFailures),
               iter : Outcomes({"items"}, ToolFailures)] :
        Invocation("databricks_list_clusters", None, databricks_list_clusters(clientCache, sc))

InvokeWorkspaceStatus ==
    \E sc \in [client : ClientOutcomes,
               auth : Outcomes({"me@example.com"}, ToolFailures),
               clusters : Outcomes({"empty"}, {Timeout}),
               warehouses : Outcomes({"empty"}, {Timeout}),
               jobs : Outcomes({"empty"}, {Timeout}),
               endpoints : Outcomes({"empty"}, {Timeout}),
               catalogs : Outcomes({"empty"}, {Timeout})] :
        Invocation("databricks_workspace_status", None,
                   databricks_workspace_status(clientCache, sc))

InvokeSetupSchema ==
    \E create_catalog \in BOOLEAN :
        \E sc \in [client : ClientOutcomes,
                   catalog : Outcomes({"catalog"}, CatalogFailures),
                   schema : Outcomes({"schema"}, ToolFailures)] :
            Invocation("databricks_setup_schema", [create_catalog |-> create_catalog],
                       databricks_setup_schema(clientCache, sc, create_catalog))

InvokeTablePreview ==
    \E has_wh \in BOOLEAN :
        \E sc \in [client : ClientOutcomes,
                   table : Outcomes({"columns", "no_columns"}, ToolFailures),
                   whlist : Outcomes({"running", "none_running"}, ToolFailures),
                   exec : Outcomes({"rows", "no_rows"}, ToolFailures)] :
            Invocation("databricks_table_preview", [has_warehouse_id |-> has_wh],
                       databricks_table_preview(clientCache, sc, has_wh))

InvokeFindAndStartWarehouse ==
    \E sc \in [client : ClientOutcomes,
               list : Outcomes(Warehouses, {Timeout}),
               start : Outcomes({"started"}, {Timeout})] :
        Invocation("databricks_find_and_start_warehouse", None,
                   databricks_find_and_start_warehouse(clientCache, sc))

InvokeCreateJob ==
    \E args \in [name : {"etl"}, task_key : {"main"},
                  notebook_path : {"", "/Users/me/nb"},
                  python_file : {"", "dbfs:/etl.py"},
                  cluster_id : {"", "c1"}] :
        \E sc \in [client : ClientOutcomes, create : Outcomes({7}, ToolFailures)] :
            Invocation("databricks_create_job", args,
                       databricks_create_job(clientCache, sc, args))

InvokeCreateCluster ==
    \E args \in [cluster_name : {"dev"}, spark_version : {"15.4.x-scala2.12"},
                  node_type_id : {"i3.xlarge"},
                  num_workers : {None} \cup {Some(n) : n \in 0..MaxWorkers},
                  autoscale_min : -1..MaxWorkers,
                  autoscale_max : -1..MaxWorkers] :
        \E sc \in [client : ClientOutcomes, create : Outcomes({"cluster"}, ToolFailures)] :
            Invocation("databricks_create_cluster", args,
                       databricks_create_cluster(clientCache, sc, args))

RequestedResults == {1} \cup ((QueryHistoryCap - 1)..(QueryHistoryCap + MaxOverCap))

InvokeListQueryHistory ==
    \E args \in [warehouse_id : {"", "wh-1"},
                  max_results : {None} \cup {Some(n) : n \in RequestedResults}] :
        \E sc \in [client : ClientOutcomes, list : Outcomes({"history"}, ToolFailures)] :
            Invocation("databricks_list_query_history", args,
                       databricks_list_query_history(clientCache, sc, args))

InvokeCreateVectorSearchEndpoint ==
    \E args \in [name : {"vs"}, endpoint_type : {"STANDARD", "standard", "PREMIUM"}] :
        \E sc \in [client : ClientOutcomes,
                   create : Outcomes({"wait"}, ToolFailures \cup {KeyError("endpoint")})] :
            Invocation("databricks_create_vector_search_endpoint", args,
                       databricks_create_vector_search_endpoint(clientCache, sc, args))

\* Sequences of invocations of the operations that build one upstream request
\* from their arguments.
NextRequests ==
    \/ InvokeCreateCluster
    \/ InvokeCreateJob
    \/ InvokeListQueryHistory

\* Sequences of invocations of databricks_find_and_start_warehouse.
NextWarehouse == InvokeFindAndStartWarehouse

NextTools ==
    \/ InvokeCreateJob
    \/ InvokeCreateVectorSearchEndpoint
    \/ InvokeGetCluster
    \/ InvokeListClusters
    \/ InvokeWorkspaceStatus
    \/ InvokeSetupSchema
    \/ InvokeTablePreview

(***************************************************************************)
(* server.py: _register_tools and main, one loop iteration per step        *)
(***************************************************************************)
\* _TOOL_MODULES, by module_name.
TOOL_MODULES == <<(<<"a">>), (<<"b">>), (<<"c">>)>>

\* What importing a listed module and registering it does: it registers, the
\* import raises ImportError, the module has no register_tools, or a failure
\* that is not an ImportError is raised.
ModuleOutcomes == {"ok", "import_error", "no_register_tools", "crash"}

DefaultHost == "0.0.0.0"

DefaultPort == 8080

InvalidArgs == [valid |-> FALSE, transport |-> "stdio", host |-> DefaultHost, port |-> DefaultPort]

\* parser.parse_args(): the namespace, or a command line argparse rejects.
ArgvOutcomes ==
    [valid : {TRUE}, transport : {"stdio", "sse"},
     host : {DefaultHost, "127.0.0.1"}, port : {DefaultPort, 9000}]
        \cup {InvalidArgs}

\* mcp.settings as FastMCP("databricks", ...) leaves it.
SettingsAtImport == [host |-> "127.0.0.1", port |-> 8000]

ServerEnvValues == {None, Some(<<"a">>), Some(<<"b", ",", "c">>)}

\* A call made by main() or _register_tools(): what was called, the module it
\* was called for, and its argument or result.
Ev(ev, name, arg) == [ev |-> ev, name |-> name, arg |-> arg]

InitServer ==
    /\ envInclude \in ServerEnvValues
    /\ envExclude \in ServerEnvValues
    /\ fOp = "none"
    /\ fName = <<>>
    /\ fFilter = <<None, None>>
    /\ fEnabled = TRUE
    /\ fSeen = <<None, None>>
    /\ envChanges = 0
    /\ fChangesSeen = 0
    /\ srvArgs \in ArgvOutcomes
    /\ srvOutcome \in [1..Len(TOOL_MODULES) -> ModuleOutcomes]
    /\ srvPc = "start"
    /\ srvIdx = 0
    /\ srvLog = <<>>
    /\ srvSettings = SettingsAtImport
    /\ srvExc = None

ServerIdle ==
    /\ srvArgs = InvalidArgs
    /\ srvOutcome = [i \in 1..Len(TOOL_MODULES) |-> "ok"]
    /\ srvPc = "start"
    /\ srvIdx = 0
    /\ srvLog = <<>>
    /\ srvSettings = SettingsAtImport
    /\ srvExc = None

ServerInput == <<srvArgs, srvOutcome>>

\* args = parser.parse_args() on a command line argparse rejects: SystemExit.
ParseArgsExits ==
    /\ srvPc = "start"
    /\ ~srvArgs.valid
    /\ srvPc' = "exited"
    /\ srvExc' = Some("SystemExit")
    /\ UNCHANGED <<ServerInput, srvIdx, srvLog, srvSettings, filterVars, exceptServer>>

\* args = parser.parse_args(); _register_tools()
MainCallsRegisterTools ==
    /\ srvPc = "start"
    /\ srvArgs.valid
    /\ srvPc' = "loop"
    /\ srvIdx' = 1
    /\ srvLog' = Append(srvLog, Ev("_register_tools", <<>>, ""))
    /\ UNCHANGED <<ServerInput, srvSettings, srvExc, filterVars, exceptServer>>

InLoop == srvPc = "loop" /\ srvIdx <= Len(TOOL_MODULES)

module_name == TOOL_MODULES[srvIdx]

Enabled == is_module_enabled(envInclude, envExclude, module_name)

\* if is_module_enabled(module_name): false
SkipDisabledModule_imports ==
    /\ InLoop
    /\ ~Enabled
    /\ srvIdx' = srvIdx + 1
    /\ srvLog' = srvLog \o <<Ev("is_module_enabled", module_name, "False"),
                             Ev("import_module", module_name, "")>>
    /\ UNCHANGED <<ServerInput, srvPc, srvSettings, srvExc, filterVars, exceptServer>>

SkipDisabledModule ==
    /\ InLoop
    /\ ~Enabled
    /\ srvIdx' = srvIdx + 1
    /\ srvLog' = Append(srvLog, Ev("is_module_enabled", module_name, "False"))
    /\ UNCHANGED <<ServerInput, srvPc, srvSettings, srvExc, filterVars, exceptServer>>

\* mod = importlib.import_module(module_path); mod.register_tools(mcp)
ImportAndRegister ==
    /\ InLoop
    /\ Enabled
    /\ srvOutcome[srvIdx] = "ok"
    /\ srvIdx' = srvIdx + 1
    /\ srvLog' = srvLog \o <<Ev("is_module_enabled", module_name, "True"),
                             Ev("import_module", module_name, ""),
                             Ev("register_tools", module_name, "")>>
    /\ UNCHANGED <<ServerInput, srvPc, srvSettings, srvExc, filterVars, exceptServer>>

\* hasattr(mod, "register_tools") is false
ImportWithoutRegisterTools ==
    /\ InLoop
    /\ Enabled
    /\ srvOutcome[srvIdx] = "no_register_tools"
    /\ srvIdx' = srvIdx + 1
    /\ srvLog' = srvLog \o <<Ev("is_module_enabled", module_name, "True"),
                             Ev("import_module", module_name, "")>>
    /\ UNCHANGED <<ServerInput, srvPc, srvSettings, srvExc, filterVars, exceptServer>>

ImportFails_stops ==
    /\ InLoop
    /\ Enabled
    /\ srvOutcome[srvIdx] = "import_error"
    /\ srvPc' = "registered"
    /\ srvLog' = srvLog \o <<Ev("is_module_enabled", module_name, "True"),
                             Ev("import_module", module_name, ""),
                             Ev("print_warning", module_name, "")>>
    /\ UNCHANGED <<ServerInput, srvIdx, srvSettings, srvExc, filterVars, exceptServer>>

\* except ImportError as e: print(f"Warning: ...", file=sys.stderr)
ImportFails ==
    /\ InLoop
    /\ Enabled
    /\ srvOutcome[srvIdx] = "import_error"
    /\ srvIdx' = srvIdx + 1
    /\ srvLog' = srvLog \o <<Ev("is_module_enabled", module_name, "True"),
                             Ev("import_module", module_name, ""),
                             Ev("print_warning", module_name, "")>>
    /\ UNCHANGED <<ServerInput, srvPc, srvSettings, srvExc, filterVars, exceptServer>>

\* A failure that is not an ImportError leaves the loop, _register_tools and main.
ImportCrashes ==
    /\ InLoop
    /\ Enabled
    /\ srvOutcome[srvIdx] = "crash"
    /\ srvPc' = "raised"
    /\ srvExc' = Some("SyntaxError")
    /\ srvLog' = srvLog \o <<Ev("is_module_enabled", module_name, "True"),
                             Ev("import_module", module_name, "")>>
    /\ UNCHANGED <<ServerInput, srvIdx, srvSettings, filterVars, exceptServer>>

\* register_resources(mcp); register_prompts(mcp)
RegisterResourcesAndPrompts ==
    /\ srvPc = "loop"
    /\ srvIdx > Len(TOOL_MODULES)
    /\ srvPc' = "registered"
    /\ srvLog' = srvLog \o <<Ev("register_resources", <<>>, ""),
                             Ev("register_prompts", <<>>, "")>>
    /\ UNCHANGED <<ServerInput, srvIdx, srvSettings, srvExc, filterVars, exceptServer>>

RunSse_settings_untouched ==
    /\ srvPc = "registered"
    /\ srvArgs.transport = "sse"
    /\ srvPc' = "returned"
    /\ srvLog' = Append(srvLog, Ev("run", <<>>, "sse"))
    /\ UNCHANGED <<ServerInput, srvIdx, srvSettings, srvExc, filterVars, exceptServer>>

\* mcp.settings.host = args.host; mcp.settings.port = args.port; mcp.run(transport="sse")
RunSse ==
    /\ srvPc = "registered"
    /\ srvArgs.transport = "sse"
    /\ srvPc' = "returned"
    /\ srvSettings' = [host |-> srvArgs.host, port |-> srvArgs.port]
    /\ srvLog' = srvLog \o <<Ev("settings.host", <<>>, ""),
                             Ev("settings.port", <<>>, ""),
                             Ev("run", <<>>, "sse")>>
    /\ UNCHANGED <<ServerInput, srvIdx, srvExc, filterVars, exceptServer>>

\* mcp.run()
RunDefault ==
    /\ srvPc = "registered"
    /\ srvArgs.transport # "sse"
    /\ srvPc' = "returned"
    /\ srvLog' = Append(srvLog, Ev("run", <<>>, ""))
    /\ UNCHANGED <<ServerInput, srvIdx, srvSettings, srvExc, filterVars, exceptServer>>

NextServer ==
    \/ ParseArgsExits
    \/ MainCallsRegisterTools
    \/ SkipDisabledModule
    \/ ImportAndRegister
    \/ ImportWithoutRegisterTools
    \/ ImportFails
    \/ ImportCrashes
    \/ RegisterResourcesAndPrompts
    \/ RunSse
    \/ RunDefault

(***************************************************************************)
(* The specifications: each exercises one layer and leaves the others in   *)
(* their idle state.                                                       *)
(***************************************************************************)
FilterStart == InitFilter /\ SerIdle /\ FmtIdle /\ PagIdle /\ ToolsIdle /\ ServerIdle /\ TruncIdle

SpecFilter == FilterStart /\ [][NextFilter]_vars

FilterEnvStart ==
    InitFilterEnv /\ SerIdle /\ FmtIdle /\ PagIdle /\ ToolsIdle /\ ServerIdle /\ TruncIdle

SpecFilterEnv == FilterEnvStart /\ [][NextFilterEnv]_vars

SerializeStart == InitSerialize /\ FilterIdle /\ FmtIdle /\ PagIdle /\ ToolsIdle /\ ServerIdle /\ TruncIdle

SpecSerialize == SerializeStart /\ [][NextSerialize]_vars

PaginateStart == InitPaginate /\ FilterIdle /\ SerIdle /\ FmtIdle /\ ToolsIdle /\ ServerIdle /\ TruncIdle

SpecPaginate == PaginateStart /\ [][NextPaginate]_vars

ToolsStart == InitTools /\ FilterIdle /\ SerIdle /\ FmtIdle /\ PagIdle /\ ServerIdle /\ TruncIdle

SpecTools == ToolsStart /\ [][NextTools]_vars

RequestsStart == InitTools /\ FilterIdle /\ SerIdle /\ FmtIdle /\ PagIdle /\ ServerIdle /\ TruncIdle

SpecRequests == RequestsStart /\ [][NextRequests]_vars

WarehouseStart == InitTools /\ FilterIdle /\ SerIdle /\ FmtIdle /\ PagIdle /\ ServerIdle /\ TruncIdle

SpecWarehouse == WarehouseStart /\ [][NextWarehouse]_vars

FormatStart == InitFormat /\ FilterIdle /\ SerIdle /\ PagIdle /\ ToolsIdle /\ ServerIdle /\ TruncIdle

SpecFormat == FormatStart /\ [][NextFormat]_vars

ServerStart == InitServer /\ SerIdle /\ FmtIdle /\ PagIdle /\ ToolsIdle /\ TruncIdle

SpecServer == ServerStart /\ [][NextServer]_vars

TruncateStart ==
    InitTruncate /\ FilterIdle /\ SerIdle /\ FmtIdle /\ PagIdle /\ ToolsIdle /\ ServerIdle

SpecTruncate == TruncateStart /\ [][NextTruncate]_vars

(***************************************************************************)
(* Claims about the tool filter (checked under SpecFilter).                *)
(***************************************************************************)
Called == fOp \in {"filter", "enabled"}

\* The spec's notion of an absent source: unset, empty or whitespace-only.
Blank(v) == IsNone(v) \/ strip(v.val) = <<>>

\* C2: is_module_enabled(name) is (name in the include set) when the include
\* set is present, otherwise (name not in the exclude set) when the exclude
\* set is present, otherwise true; membership is exact equality of names.
C2_IsModuleEnabled ==
    fOp = "enabled" =>
        fEnabled = (IF ~IsNone(fFilter[1]) THEN \E m \in fFilter[1].val : m = fName
                    ELSE IF ~IsNone(fFilter[2]) THEN \A m \in fFilter[2].val : m # fName
                    ELSE TRUE)

C2_Witness ==
    /\ fOp = "enabled"
    /\ IsNone(fFilter[1])
    /\ ~IsNone(fFilter[2])
    /\ fName \in fFilter[2].val
    /\ fFilter[2].val # {fName}
    /\ ~fEnabled

\* C3: whenever both INCLUDE and EXCLUDE are present, get_tool_filter returns
\* the exclude set as None and is_module_enabled(name) is (name in the include
\* set) for every name: the exclude list has no influence.
C3_IncludeDiscardsExclude ==
    (Called /\ ~Blank(envInclude) /\ ~Blank(envExclude)) =>
        /\ IsNone(fFilter[2])
        /\ fOp = "enabled" => fEnabled = (fName \in parse_names(envInclude.val))

\* C4: the pair returned by get_tool_filter has at most one non-None
\* component, for every pair of environment values.
C4_AtMostOneSet ==
    Called => (IsNone(fFilter[1]) \/ IsNone(fFilter[2]))

\* C5: an empty or whitespace-only source value is treated like an unset one:
\* get_tool_filter returns None for it, never an empty set, so that with such
\* an INCLUDE and no EXCLUDE every module is enabled.
C5_BlankIsAbsent ==
    Called =>
        /\ Blank(envInclude) => IsNone(fFilter[1])
        /\ Blank(envExclude) => IsNone(fFilter[2])
        /\ (Blank(envInclude) /\ IsNone(envExclude) /\ fOp = "enabled") => fEnabled

\* An entry of the comma-separated text v with its surrounding whitespace
\* removed: m sits at v[i..j], holds no comma, and only whitespace lies between
\* it and the nearest comma (or end of the text) on either side.
IsStrippedEntry(m, v) ==
    \E i \in 1..Len(v) : \E j \in i..Len(v) :
        /\ m = SubSeq(v, i, j)
        /\ \A k \in i..j : v[k] # ","
        /\ \E a \in 0..(i - 1) :
              /\ a = 0 \/ v[a] = ","
              /\ \A k \in (a + 1)..(i - 1) : v[k] \in Whitespace
        /\ \E b \in (j + 1)..(Len(v) + 1) :
              /\ b = Len(v) + 1 \/ v[b] = ","
              /\ \A k \in (j + 1)..(b - 1) : v[k] \in Whitespace

CleanNames(o, v) ==
    ~IsNone(o) =>
        \A m \in o.val :
            /\ m # <<>>
            /\ m[1] \notin Whitespace
            /\ m[Len(m)] \notin Whitespace
            /\ ~IsNone(v) /\ IsStrippedEntry(m, v.val)

\* C6: every set returned by get_tool_filter holds only comma-separated
\* entries of its source with surrounding whitespace stripped; it never holds
\* the empty string or a name with leading or trailing whitespace.
C6_NamesAreStrippedEntries ==
    Called => (CleanNames(fFilter[1], envInclude) /\ CleanNames(fFilter[2], envExclude))

C6_Witness ==
    /\ fOp = "filter"
    /\ envInclude = Some(<<" ", "a", ",">>)
    /\ envExclude = None
    /\ fFilter = <<Some({<<"a">>}), None>>

(***************************************************************************)
(* Claims about serialize (checked under SpecSerialize).                   *)
(***************************************************************************)
\* y is x with every dataclass, at any depth, turned into a mapping of exactly
\* its non-None fields.
RECURSIVE RecordFieldsPruned(_, _)
RecordFieldsPruned(x, y) ==
    CASE x.t = "dataclass" ->
            /\ y.t = "dict"
            /\ DOMAIN y.m = {k \in DOMAIN x.m : x.m[k] # NoneV}
            /\ \A k \in DOMAIN y.m : RecordFieldsPruned(x.m[k], y.m[k])
      [] x.t \in {"list", "tuple"} ->
            /\ y.t = "list"
            /\ Len(y.q) = Len(x.q)
            /\ \A i \in 1..Len(x.q) : RecordFieldsPruned(x.q[i], y.q[i])
      [] x.t = "dict" ->
            /\ y.t = "dict"
            /\ DOMAIN y.m = DOMAIN x.m
            /\ \A k \in DOMAIN x.m : RecordFieldsPruned(x.m[k], y.m[k])
      [] x.t = "object" ->
            /\ y.t = "dict"
            /\ \A k \in DOMAIN y.m : RecordFieldsPruned(x.m[k], y.m[k])
      [] OTHER -> TRUE

\* C10: for a structured record serialize returns a mapping of exactly the
\* fields whose value is not null, each normalized, and this holds for a
\* record at any depth, including a record held in a field of another record.
C10_RecordNullsDropped ==
    sDone => RecordFieldsPruned(sIn, sOut)

\* Whether a key of the model stands for a str key.
IsStrKey(k) == k \notin {IntKey, TupleKey}

\* v is built only of null, booleans, numbers, strings, lists and
\* string-keyed mappings.
RECURSIVE IsPlainTree(_)
IsPlainTree(v) ==
    CASE v.t \in {"none", "bool", "int", "float", "str"} -> TRUE
      [] v.t = "list" -> \A i \in 1..Len(v.q) : IsPlainTree(v.q[i])
      [] v.t = "dict" -> \A k \in DOMAIN v.m : IsStrKey(k) /\ IsPlainTree(v.m[k])
      [] OTHER -> FALSE

\* C11: for every input, the result of serialize is a tree built only of
\* null, booleans, numbers, strings, lists and string-keyed mappings; at no
\* depth does it hold a record, an enumeration member, a tuple or an object.
C11_ResultIsPlainTree ==
    sDone => IsPlainTree(sOut)

\* C12: for a mapping serialize returns a mapping with the same keys, each
\* value replaced by its normalization; a null supplied directly inside a
\* mapping or a list stays null and keeps its key or position.
C12_MappingKeysAndNullsKept ==
    sDone =>
        /\ sIn.t = "dict" =>
              /\ sOut.t = "dict"
              /\ DOMAIN sOut.m = DOMAIN sIn.m
              /\ \A k \in DOMAIN sIn.m :
                    /\ sOut.m[k] = serialize(sIn.m[k])
                    /\ sIn.m[k] = NoneV => sOut.m[k] = NoneV
        /\ sIn.t = "list" =>
              /\ sOut.t = "list"
              /\ Len(sOut.q) = Len(sIn.q)
              /\ \A i \in 1..Len(sIn.q) :
                    /\ sOut.q[i] = serialize(sIn.q[i])
                    /\ sIn.q[i] = NoneV => sOut.q[i] = NoneV

C12_Witness ==
    /\ sDone
    /\ sIn.t = "dict"
    /\ DOMAIN sIn.m = {"_internal", "key"}
    /\ sIn.m["key"] = NoneV
    /\ sOut = DictV([k \in {"_internal", "key"} |->
                        IF k = "key" THEN NoneV ELSE DictV([value |-> IntV(1)])])

\* The cases of serialize, numbered in the order of the source.
CaseMatches(i, obj) ==
    CASE i = 1 -> obj.t = "none"
      [] i = 2 -> obj.t \in {"str", "int", "float", "bool", "intenum"}
      [] i = 3 -> obj.t = "dict"
      [] i = 4 -> obj.t \in {"list", "tuple"}
      [] i = 5 -> obj.t = "dataclass"
      [] i = 6 -> obj.t = "enum" \/ (obj.t \in {"object", "dataclass"} /\ "value" \in DOMAIN obj.m)
      [] i = 7 -> obj.t \in {"object", "dataclass", "enum"}
      [] i = 8 -> TRUE

FirstCase(obj) ==
    CHOOSE i \in 1..8 : CaseMatches(i, obj) /\ \A j \in 1..(i - 1) : ~CaseMatches(j, obj)

\* C13: serialize tries null, primitive, mapping, list/tuple, record,
\* value-exposing, attribute-bearing, string fallback in this order and the
\* first case that matches decides: a record that also exposes "value" becomes
\* its field mapping, an enumeration member becomes its underlying value
\* although it also carries attributes.
C13_FirstMatchingCaseDecides ==
    sDone =>
        LET c == FirstCase(sIn)
        IN  /\ c = 1 => sOut = NoneV
            /\ c = 2 => sOut = sIn
            /\ c = 3 => sOut.t = "dict" /\ DOMAIN sOut.m = DOMAIN sIn.m
            /\ c = 4 => sOut.t = "list" /\ Len(sOut.q) = Len(sIn.q)
            /\ c = 5 =>
                  /\ sOut.t = "dict"
                  /\ DOMAIN sOut.m = {k \in DOMAIN sIn.m : sIn.m[k] # NoneV}
            /\ c = 6 => sOut = (IF sIn.t = "enum" THEN sIn.e ELSE sIn.m["value"])
            /\ c = 7 =>
                  /\ sOut.t = "dict"
                  /\ DOMAIN sOut.m \subseteq DOMAIN sIn.m
            /\ c = 8 => sOut.t = "str"
            /\ sIn.t = "enum" => c = 6
            /\ (sIn.t = "dataclass" /\ "value" \in DOMAIN sIn.m) => c = 5

C13_Witness ==
    /\ sDone
    /\ sIn = DataclassV([value |-> IntV(1), city |-> NoneV])
    /\ sOut = DictV([value |-> IntV(1)])

\* C14: for an object that is none of primitive, mapping, sequence, record or
\* value-exposing but carries attributes, serialize returns a mapping with
\* exactly the attributes whose name does not start with "_" and whose value
\* is not null, each value normalized; an object with no such surface is
\* returned as its string representation.
C14_PublicNonNullAttributes ==
    sDone =>
        /\ (sIn.t = "object" /\ "value" \notin DOMAIN sIn.m) =>
              /\ sOut.t = "dict"
              /\ DOMAIN sOut.m =
                    {a \in DOMAIN sIn.m : a \notin {"_internal"} /\ sIn.m[a] # NoneV}
              /\ \A a \in DOMAIN sOut.m : sOut.m[a] = serialize(sIn.m[a])
        /\ sIn.t = "other" => sOut = StrV(sIn.s)

C14_Witness ==
    /\ sDone
    /\ sIn.t = "object"
    /\ DOMAIN sIn.m = {"x", "y", "_internal"}
    /\ sIn.m["y"] = NoneV
    /\ sOut = DictV([x |-> ListV(<<NoneV>>)])

(***************************************************************************)
(* Claims about paginate (checked under SpecPaginate).                     *)
(***************************************************************************)
\* The cap of the call: max_items, 100 when it is not given.
Cap == IF IsNone(pMaxArg) THEN 100 ELSE pMaxArg.val

Min(a, b) == IF a <= b THEN a ELSE b

PaginateReturned == pPc \in {"returned", "done"} /\ pExc = None

\* C7: paginate(sequence, max_items=N) returns exactly min(len(sequence), N)
\* items, the first ones in order, each passed through serialize; [] for an
\* empty sequence; N is 100 when the cap is not given.
C7_FirstItemsSerialized ==
    (PaginateReturned /\ pFailAt = 0) =>
        LET n == IF pEndless THEN Cap ELSE Min(Len(pItems), Cap)
        IN  /\ Len(pResults) = n
            /\ \A i \in 1..n : pResults[i] = serialize(NextItem(i))
            /\ pItems = <<>> => pResults = <<>>

C7_Witness ==
    /\ pPc = "returned"
    /\ pEndless
    /\ pFailAt = 0
    /\ IsNone(pMaxArg)
    /\ Len(pItems) = 2
    /\ pItems[1] # pItems[2]
    /\ Len(pResults) = 100
    /\ pResults[100] = DictV([city |-> StrV("NYC")])

\* C8: paginate never drains a sequence longer than its cap: for every cap
\* N >= 0 and every sequence, unbounded ones included, it stops after pulling
\* at most N + 1 items; max_items = 0 returns [] after at most one pull.
C8_AtMostCapPlusOnePulls ==
    /\ pPulled <= Cap + 1
    /\ pPc = "loop" => (pPulled <= Cap /\ ENABLED NextPaginate)
    /\ (pMaxArg = Some(0) /\ PaginateReturned) => (pResults = <<>> /\ pPulled <= 1)

C8_Witness ==
    /\ pPc = "returned"
    /\ pEndless
    /\ pFailAt = 0
    /\ pMaxArg = Some(0)
    /\ pPulled = 1
    /\ pResults = <<>>

Failed(i) == ~tLog[i].out.ok

\* The positions of the last invocation's log that hold a call of that name.
LogCalls(call) == {i \in 1..Len(tLog) : tLog[i].call = call}

ListedWarehouses == tLog[CHOOSE i \in LogCalls("warehouses.list") : TRUE].out.val

IsRunning(wh) == wh.state.name = "RUNNING"

IsStartable(wh) == wh.state.name \in {"STOPPED", "STOPPING"}

FirstRunning(whs) ==
    CHOOSE i \in 1..Len(whs) : IsRunning(whs[i]) /\ \A j \in 1..(i - 1) : ~IsRunning(whs[j])

FirstStartable(whs) ==
    CHOOSE i \in 1..Len(whs) :
        IsStartable(whs[i]) /\ \A j \in 1..(i - 1) : ~IsStartable(whs[j])

\* C23: databricks_find_and_start_warehouse issues at most one
\* warehouses.start call per invocation, and none when the list is empty or
\* some listed warehouse is running, in which case it returns the first
\* running warehouse in list order; only when none is running does it start
\* the first listed warehouse that is stopped or stopping; when none is
\* running or startable it starts nothing and reports all states.
C23_RunningFirstThenStart ==
    (/\ tTool = "databricks_find_and_start_warehouse"
     /\ LogCalls("warehouses.list") # {}
     /\ \A i \in LogCalls("warehouses.list") : tLog[i].out.ok) =>
        LET whs == ListedWarehouses
            starts == LogCalls("warehouses.start")
        IN  /\ Cardinality(starts) <= 1
            /\ whs = <<>> => starts = {}
            /\ (\E i \in 1..Len(whs) : IsRunning(whs[i])) =>
                   /\ starts = {}
                   /\ tRet = to_json(RunningWarehouse(whs[FirstRunning(whs)]))
            /\ (/\ \A i \in 1..Len(whs) : ~IsRunning(whs[i])
                /\ \E i \in 1..Len(whs) : IsStartable(whs[i])) =>
                   /\ Cardinality(starts) = 1
                   /\ \A i \in starts :
                          tLog[i].arg.id = whs[FirstStartable(whs)].id
            /\ (/\ whs # <<>>
                /\ \A i \in 1..Len(whs) : ~IsRunning(whs[i]) /\ ~IsStartable(whs[i])) =>
                   /\ starts = {}
                   /\ tRet = to_json(AllStates(whs))

\* C24: databricks_setup_schema with create_catalog=True calls catalog
\* creation before schema creation; a catalog-creation failure whose message
\* contains "already exists" in any case is recorded as the step
\* already_exists and schema creation is still attempted; after any other
\* catalog-creation failure schema creation is never attempted and the
\* operation returns that failure formatted.  With create_catalog=False
\* catalog creation is never called.
C24_CatalogBeforeSchema ==
    (tTool = "databricks_setup_schema" /\ (tCacheBefore \/ Constructed(tLog))) =>
        LET catalog == LogCalls("catalogs.create")
            schema == LogCalls("schemas.create")
        IN  /\ ~tArgs.create_catalog => catalog = {}
            /\ tArgs.create_catalog =>
                   /\ Cardinality(catalog) = 1
                   /\ \A i \in catalog : \A j \in schema : i < j
                   /\ \A i \in catalog :
                          /\ tLog[i].out.ok => Cardinality(schema) = 1
                          /\ (Failed(i) /\ ContainsAlreadyExists(tLog[i].out.exc.msg)) =>
                                 /\ Cardinality(schema) = 1
                                 /\ \A j \in schema :
                                        tLog[j].out.ok =>
                                            tRet = to_json(DictV(
                                                [steps |-> ListV(<<CatalogStep("already_exists"),
                                                                   SchemaStep>>),
                                                 schema |-> SchemaInfo]))
                          /\ (Failed(i) /\ ~ContainsAlreadyExists(tLog[i].out.exc.msg)) =>
                                 /\ schema = {}
                                 /\ tRet = Text(format_error(tLog[i].out.exc))

C24_Witness ==
    /\ tTool = "databricks_setup_schema"
    /\ tArgs.create_catalog
    /\ Len(tLog) = 2
    /\ tLog[1].call = "catalogs.create"
    /\ ~tLog[1].out.ok
    /\ tLog[1].out.exc.msg = "CATALOG ALREADY EXISTS"
    /\ tLog[2].call = "schemas.create"
    /\ tLog[2].out.ok
    /\ tRet.t = "json"

\* The client was obtained in the last invocation: from the cache, or from a
\* constructor that completed.
ClientObtained == tCacheBefore \/ Constructed(tLog)

ExactlyOneTaskSource == (tArgs.notebook_path # "") # (tArgs.python_file # "")

\* What the last invocation returned is a "ValueError: ..." string.
ReturnedValueError ==
    tRet \in {Text("ValueError: Provide either notebook_path or python_file, not both."),
              Text("ValueError: Provide either notebook_path or python_file.")}

\* The single task of every jobs.create call carries a notebook task when
\* notebook_path is given and a Python-file task otherwise, never both.
OneTaskOfTheGivenKind ==
    \A i \in LogCalls("jobs.create") :
        /\ Len(tLog[i].arg.tasks) = 1
        /\ ("notebook_task" \in DOMAIN tLog[i].arg.tasks[1]) <=> (tArgs.notebook_path # "")
        /\ ("spark_python_task" \in DOMAIN tLog[i].arg.tasks[1])
               <=> (tArgs.notebook_path = "")
        /\ "notebook_task" \in DOMAIN tLog[i].arg.tasks[1] =>
               tLog[i].arg.tasks[1].notebook_task.notebook_path = tArgs.notebook_path
        /\ "spark_python_task" \in DOMAIN tLog[i].arg.tasks[1] =>
               tLog[i].arg.tasks[1].spark_python_task.python_file = tArgs.python_file

\* C25: databricks_create_job calls the upstream jobs.create if and only if
\* exactly one of notebook_path and python_file is non-empty; when both or
\* neither are given it returns a "ValueError: ..." string without any
\* upstream create call; the single task sent carries a notebook task when
\* notebook_path is given and a Python-file task otherwise, never both.
C25_CreateIffExactlyOne ==
    tTool = "databricks_create_job" =>
        /\ (LogCalls("jobs.create") # {}) <=> ExactlyOneTaskSource
        /\ ~ExactlyOneTaskSource => ReturnedValueError
        /\ OneTaskOfTheGivenKind

\* C25 as amended: the same, for the invocations in which the client is
\* obtained; when obtaining the client fails, no create call is made and
\* that failure is returned formatted, whatever the two parameters are.
C25_CreateIffExactlyOneWithClient ==
    tTool = "databricks_create_job" =>
        /\ Cardinality(LogCalls("jobs.create")) <= 1
        /\ ClientObtained =>
               /\ (LogCalls("jobs.create") # {}) <=> ExactlyOneTaskSource
               /\ ~ExactlyOneTaskSource => ReturnedValueError
        /\ ~ClientObtained =>
               /\ LogCalls("jobs.create") = {}
               /\ tRet = Text(format_error(tLog[1].out.exc))
        /\ OneTaskOfTheGivenKind

C25_Witness ==
    /\ tTool = "databricks_create_job"
    /\ Constructed(tLog)
    /\ tArgs.notebook_path # ""
    /\ tArgs.python_file # ""
    /\ Len(tLog) = 1
    /\ tRet = Text("ValueError: Provide either notebook_path or python_file, not both.")

\* C26: databricks_create_cluster sends to the upstream create call exactly
\* one of "autoscale" and "num_workers": "autoscale", with
\* min_workers=autoscale_min and max_workers=autoscale_max, if and only if
\* autoscale_min > 0 and autoscale_max > 0, and "num_workers" (0 when not
\* given) in every other case, including when only one bound is positive.
C26_AutoscaleOrNumWorkers ==
    tTool = "databricks_create_cluster" =>
        /\ ClientObtained => Cardinality(LogCalls("clusters.create")) = 1
        /\ \A i \in LogCalls("clusters.create") :
               LET kwargs == tLog[i].arg
                   both == tArgs.autoscale_min > 0 /\ tArgs.autoscale_max > 0
               IN  /\ ("autoscale" \in DOMAIN kwargs) # ("num_workers" \in DOMAIN kwargs)
                   /\ ("autoscale" \in DOMAIN kwargs) <=> both
                   /\ both => kwargs.autoscale = [min_workers |-> tArgs.autoscale_min,
                                                  max_workers |-> tArgs.autoscale_max]
                   /\ ~both => kwargs.num_workers = (IF IsNone(tArgs.num_workers) THEN 0
                                                     ELSE tArgs.num_workers.val)

C26_Witness ==
    /\ tTool = "databricks_create_cluster"
    /\ tArgs.autoscale_min = 1
    /\ tArgs.autoscale_max = 0
    /\ tArgs.num_workers = Some(2)
    /\ LogCalls("clusters.create") # {}
    /\ \A i \in LogCalls("clusters.create") :
           "num_workers" \in DOMAIN tLog[i].arg /\ tLog[i].arg.num_workers = 2

\* The max_results the caller asked for: 25 when it is left out.
RequestedMaxResults == IF IsNone(tArgs.max_results) THEN 25 ELSE tArgs.max_results.val

\* C27: databricks_list_query_history sends upstream max_results =
\* min(requested, 25): the value sent never exceeds 25, a requested value of
\* at most 25 is sent unchanged, and the default sent is 25.
C27_MaxResultsCapped ==
    tTool = "databricks_list_query_history" =>
        /\ ClientObtained => Cardinality(LogCalls("query_history.list")) = 1
        /\ \A i \in LogCalls("query_history.list") :
               LET sent == tLog[i].arg.max_results
               IN  /\ sent = Min(RequestedMaxResults, 25)
                   /\ sent <= 25
                   /\ RequestedMaxResults <= 25 => sent = RequestedMaxResults
                   /\ IsNone(tArgs.max_results) => sent = 25

C27_Witness ==
    /\ tTool = "databricks_list_query_history"
    /\ tArgs.max_results = Some(27)
    /\ LogCalls("query_history.list") # {}
    /\ \A i \in LogCalls("query_history.list") : tLog[i].arg.max_results = 25

\* The upstream calls of the last invocation, without the constructor.
UpstreamCalls == SelectSeq(tLog, LAMBDA e : e.call # "WorkspaceClient")

ProbeOrder ==
    <<"current_user.me", "clusters.list", "warehouses.list", "jobs.list",
      "serving_endpoints.list", "catalogs.list">>

ProbeKeys == <<"auth", "clusters", "sql_warehouses", "jobs", "serving_endpoints", "catalogs">>

\* What a probe reports under its key when its call fails.
ReportedFailed(k, exc) ==
    IF k = 1 THEN encode(serialize(DictV([status |-> StrV("error"), error |-> StrV(exc.msg)])))
    ELSE encode(serialize(Unavailable))

C29_ConstructedAtMostOnce ==
    /\ clientMade <= 1
    /\ clientCache <=> clientMade = 1
    /\ tTool # "none" =>
           /\ tCacheBefore => LogCalls("WorkspaceClient") = {} /\ clientCache
           /\ ~tCacheBefore =>
                  /\ LogCalls("WorkspaceClient") = {1}
                  /\ clientCache <=> tLog[1].out.ok

C29_Witness ==
    /\ tPrevFailed
    /\ ~tCacheBefore
    /\ Constructed(tLog)
    /\ clientMade = 1
    /\ clientCache

C29_WitnessCached ==
    /\ tCacheBefore
    /\ tTool # "none"
    /\ tLog # <<>>
    /\ clientMade = 1

InvalidEndpointTypeGiven == tArgs.endpoint_type \notin {"STANDARD"}

InvalidEndpointTypeText ==
    Text("ValueError: Invalid endpoint_type '" \o tArgs.endpoint_type
         \o "'. Supported values: STANDARD")

\* C30: databricks_create_vector_search_endpoint returns the "ValueError:
\* Invalid endpoint_type ..." string exactly when endpoint_type is not a
\* valid endpoint-type name, and then makes no upstream create_endpoint call;
\* a failure raised by the upstream create_endpoint call itself is reported
\* with that failure's own kind name and message.
C30_InvalidTypeOnlyWhenInvalid ==
    tTool = "databricks_create_vector_search_endpoint" =>
        /\ (tRet = InvalidEndpointTypeText) <=> InvalidEndpointTypeGiven
        /\ InvalidEndpointTypeGiven => LogCalls("create_endpoint") = {}
        /\ \A i \in LogCalls("create_endpoint") :
               Failed(i) => tRet = Text(format_error(tLog[i].out.exc))

CaughtInside(i) ==
    \/ tTool = "databricks_workspace_status" /\ tLog[i].call # "WorkspaceClient"
    \/ /\ tTool = "databricks_setup_schema"
       /\ tLog[i].call = "catalogs.create"
       /\ ContainsAlreadyExists(tLog[i].out.exc.msg)
    \/ tTool = "databricks_table_preview" /\ tLog[i].call = "tables.get"

\* The failure databricks_create_vector_search_endpoint catches in its
\* "except KeyError" handler, which stands before "except Exception" around
\* the same body and returns the invalid-endpoint-type string instead.
CaughtAsKeyError(i) ==
    tTool = "databricks_create_vector_search_endpoint" /\ tLog[i].out.exc.kind = "KeyError"

\* The operation turned its arguments down itself, with the client in hand.
ArgumentsRejected ==
    /\ ClientObtained
    /\ \/ tTool = "databricks_create_job" /\ ~ExactlyOneTaskSource
       \/ tTool = "databricks_create_vector_search_endpoint" /\ InvalidEndpointTypeGiven

C15_FormatErrorShape ==
    eDone =>
        /\ ~eIn.hasCode => eOut = eIn.kind \o ": " \o eIn.msg
        /\ eIn.hasCode => eOut = eIn.kind \o ": [" \o eIn.code \o "] " \o eIn.msg
        /\ eIn.hasCode <=> Len(eOut) > Len(eIn.kind) + Len(": ") + Len(eIn.msg)
        /\ (~eIn.hasCode /\ eIn.msg = "") => eOut = eIn.kind \o ": "

C15_Witness ==
    /\ eDone
    /\ eIn.kind = "RuntimeError"
    /\ eIn.hasCode
    /\ eIn.code = "None"
    /\ eOut = "RuntimeError: [None] resource not found"

C15_WitnessEmptyMessage ==
    eDone /\ ~eIn.hasCode /\ eOut = "Exception: "

(***************************************************************************)
(* Claims about to_json (checked under SpecSerialize).                     *)
(***************************************************************************)
\* The tree a reader of the text is entitled to: the normalized tree with
\* every leaf the encoder cannot write replaced by its string representation
\* (an int subclass is written as the int it is).
RECURSIVE WithStringFallback(_)
WithStringFallback(v) ==
    CASE v.t \in {"none", "int", "str"} -> v
      [] v.t = "intenum" -> IntV(v.n)
      [] v.t = "list" -> ListV([i \in 1..Len(v.q) |-> WithStringFallback(v.q[i])])
      [] v.t = "tuple" -> TupleV([i \in 1..Len(v.q) |-> WithStringFallback(v.q[i])])
      [] v.t = "dict" -> DictV([k \in DOMAIN v.m |-> WithStringFallback(v.m[k])])
      [] OTHER -> StrV(str(v))

\* C16: for every input x, parsing the text returned by to_json(x) gives a
\* tree equal to serialize(x), except that a leaf the encoder cannot write
\* appears as its string representation.
C16_RoundTrip ==
    (jDone /\ jOut.t = "json") => loads(jOut.j) = WithStringFallback(serialize(sIn))

\* C17: to_json is total: for every input serialize accepts, whatever the keys
\* of its mappings, it returns a string and never raises.
C17_ToJsonTotal ==
    jDone => jOut.t = "json"

(***************************************************************************)
(* Claims about _register_tools and main (checked under SpecServer).       *)
(***************************************************************************)
\* The positions of the log holding a call of the given kind.
Calls(ev) == {i \in 1..Len(srvLog) : srvLog[i].ev = ev}

CallsFor(ev, name) == {i \in Calls(ev) : srvLog[i].name = name}

\* The modules a kind of call was made for, in the order of the calls.
NamesOf(ev) ==
    LET picked == SelectSeq(srvLog, LAMBDA e : e.ev = ev)
    IN  [i \in 1..Len(picked) |-> picked[i].name]

RegisterToolsCompleted == srvPc \in {"registered", "returned"}

NoFilterSet == IsNone(envInclude) /\ IsNone(envExclude)

\* C18: a listed module is imported and has register_tools(mcp) invoked only
\* if is_module_enabled returned true for its name; a module it returned false
\* for is never imported; after _register_tools completes every listed module
\* has been considered exactly once, in list order, and with no filter set
\* every listed module has been imported.
C18_OnlyEnabledModulesImported ==
    /\ \A i \in Calls("import_module") \cup Calls("register_tools") :
          /\ \E j \in CallsFor("is_module_enabled", srvLog[i].name) :
                j < i /\ srvLog[j].arg = "True"
          /\ \A j \in CallsFor("is_module_enabled", srvLog[i].name) :
                srvLog[j].arg = "True"
    /\ \A i \in Calls("register_tools") :
          \E j \in CallsFor("import_module", srvLog[i].name) : j < i
    /\ RegisterToolsCompleted =>
          /\ NamesOf("is_module_enabled") = TOOL_MODULES
          /\ NoFilterSet => NamesOf("import_module") = TOOL_MODULES

C18_Witness ==
    /\ RegisterToolsCompleted
    /\ envInclude = Some(<<"b", ",", "c">>)
    /\ NamesOf("import_module") = <<(<<"b">>), (<<"c">>)>>
    /\ NamesOf("register_tools") = <<(<<"b">>), (<<"c">>)>>
    /\ CallsFor("import_module", <<"a">>) = {}

\* The listed modules is_module_enabled returned true for, up to position n.
EnabledUpTo(n) ==
    {i \in 1..n : is_module_enabled(envInclude, envExclude, TOOL_MODULES[i])}

\* C19: an import error, or a module without register_tools, does not stop the
\* loop: every later enabled module is still imported and, when it imports
\* and has register_tools, registered; resources and prompts are registered
\* exactly once afterwards, whatever modules were enabled, disabled or failed.
C19_ImportFailureDoesNotStopLoop ==
    /\ srvPc = "raised" => srvOutcome[srvIdx] = "crash"
    /\ RegisterToolsCompleted =>
          /\ \A i \in EnabledUpTo(Len(TOOL_MODULES)) :
                /\ CallsFor("import_module", TOOL_MODULES[i]) # {}
                /\ srvOutcome[i] = "ok" => CallsFor("register_tools", TOOL_MODULES[i]) # {}
          /\ Cardinality(Calls("register_resources")) = 1
          /\ Cardinality(Calls("register_prompts")) = 1
          /\ \A r \in Calls("register_resources") \cup Calls("register_prompts") :
                \A i \in Calls("import_module") \cup Calls("register_tools")
                         \cup Calls("is_module_enabled") : i < r

C19_Witness ==
    /\ RegisterToolsCompleted
    /\ NoFilterSet
    /\ srvOutcome = <<"import_error", "no_register_tools", "ok">>
    /\ NamesOf("print_warning") = <<(<<"a">>)>>
    /\ NamesOf("register_tools") = <<(<<"c">>)>>
    /\ Calls("register_prompts") # {}

\* C20: main() calls _register_tools() once, before the server is run, and
\* runs the server once; with transport "sse" host and port are assigned
\* before run(transport="sse"), with the default transport run() is called
\* with the settings left untouched.
C20_RegisterBeforeRun ==
    /\ Cardinality(Calls("_register_tools")) <= 1
    /\ Cardinality(Calls("run")) <= 1
    /\ srvPc = "returned" =>
          /\ Cardinality(Calls("_register_tools")) = 1
          /\ Cardinality(Calls("run")) = 1
    /\ \A r \in Calls("run") :
          /\ \E i \in Calls("_register_tools") : i < r
          /\ \E i \in Calls("register_prompts") : i < r
          /\ r = Len(srvLog)
          /\ srvLog[r].arg = "sse" <=> srvArgs.transport = "sse"
          /\ srvLog[r].arg = "sse" =>
                /\ \E i \in Calls("settings.host") : i < r
                /\ \E i \in Calls("settings.port") : i < r
                /\ srvSettings = [host |-> srvArgs.host, port |-> srvArgs.port]
          /\ srvLog[r].arg # "sse" =>
                /\ Calls("settings.host") \cup Calls("settings.port") = {}
                /\ srvSettings = SettingsAtImport

C20_Witness ==
    /\ srvPc = "returned"
    /\ srvArgs.transport = "sse"
    /\ srvArgs.port = 9000
    /\ srvSettings = [host |-> "0.0.0.0", port |-> 9000]
    /\ srvLog[Len(srvLog)] = Ev("run", <<>>, "sse")

(***************************************************************************)
(* Claims about the filter under a changing environment (SpecFilterEnv).   *)
(***************************************************************************)
\* C21: the tool filter keeps no snapshot: each call's result is a function
\* of the environment values at the moment of that call only, so a call made
\* after a change reflects the new values, and the calls never modify the
\* environment.
C21_NoSnapshot ==
    fOp \in {"filter", "enabled"} =>
        /\ fFilter = get_tool_filter(fSeen[1], fSeen[2])
        /\ fOp = "enabled" => fEnabled = is_module_enabled(fSeen[1], fSeen[2], fName)
        /\ fChangesSeen = envChanges => fSeen = <<envInclude, envExclude>>
        /\ (fSeen[1] = None /\ fSeen[2] = None) => fFilter = <<None, None>>
        /\ fSeen[1] = Some(<<"a">>) => fFilter = <<Some({<<"a">>}), None>>

C21_Witness ==
    /\ fOp = "enabled"
    /\ fChangesSeen = 2
    /\ envChanges = 2
    /\ envInclude = Some(<<"a">>)
    /\ fName = <<"b">>
    /\ fEnabled = FALSE
    /\ fFilter = <<Some({<<"a">>}), None>>

(***************************************************************************)
(* Claims about truncate_results (checked under SpecTruncate).             *)
(***************************************************************************)
TruncateCap == IF IsNone(trMaxArg) THEN 50 ELSE trMaxArg.val

\* C22: for every list and every max_items >= 0, 'items' is the first
\* min(len(list), max_items) elements in order, 'count' the length of the
\* original list, 'truncated' true exactly when the original length is
\* greater than max_items; the default max_items is 50.
C22_TruncateResults ==
    (trDone /\ TruncateCap >= 0) =>
        /\ Len(trOut.items) = Min(Len(trItems), TruncateCap)
        /\ \A i \in 1..Len(trOut.items) : trOut.items[i] = trItems[i]
        /\ trOut.count = Len(trItems)
        /\ trOut.truncated <=> Len(trItems) > TruncateCap

C22_Witness ==
    /\ trDone
    /\ trMaxArg = None
    /\ Len(trItems) = 60
    /\ Len(trOut.items) = 50
    /\ trOut.count = 60
    /\ trOut.truncated

C22_WitnessAtLimit ==
    /\ trDone
    /\ trMaxArg = Some(2)
    /\ trItems = <<1, 2>>
    /\ trOut = [items |-> <<1, 2>>, count |-> 2, truncated |-> FALSE]

====
